---- MODULE Spec2Model ----
(***************************************************************************)
(* A model of the limb-level kernel of gmaths: the limb primitives of      *)
(* integers/limb_type.hpp, the bitwise engine of limb_span_bitwise.hpp and *)
(* the comparison engine of limb_span_compare.hpp.                         *)
(*                                                                         *)
(* The library is a set of functions over caller-owned storage.  A run of  *)
(* the model is one call: Init is the caller's storage and operands just   *)
(* before the call, one action per entry point performs the whole call.    *)
(*                                                                         *)
(* Limbs are modelled at a reduced width: limb_half_bits is HalfBits       *)
(* instead of 32, limb_bits is twice that, and every limb operation wraps  *)
(* modulo 2^limb_bits exactly as the 64-bit one wraps modulo 2^64.         *)
(* Spans are modelled with dynamic extent, so every `if constexpr` test on *)
(* extents is taken and the run-time size tests decide.                    *)
(***************************************************************************)
EXTENDS Integers, Naturals, Sequences, FiniteSets, TLC

VARIABLES pc, views, mem0, mem, call, log, ret

vars == <<pc, views, mem0, mem, call, log, ret>>

(***************************************************************************)
(* Bounds of the model.                                                    *)
(***************************************************************************)
\* width of a half limb in the model (32 in the source)
HalfBits == 2
\* span lengths 0..MaxLen are enumerated by the bitwise specification
MaxLen == 3
\* span lengths 0..MaxCmpLen are enumerated by the comparison specification
MaxCmpLen == 3
\* the number of limbs of the longest integer negated limb by limb
MaxChain == 3

(***************************************************************************)
(* limb_type.hpp: the limb type.                                           *)
(***************************************************************************)
limb_half_bits == HalfBits
limb_bits == 2 * limb_half_bits

RECURSIVE Pow2(_)
Pow2(n) == IF n = 0 THEN 1 ELSE 2 * Pow2(n - 1)

LimbMod == Pow2(limb_bits)
HalfMod == Pow2(limb_half_bits)
limb_max == LimbMod - 1
Limb == 0 .. limb_max
HalfLimb == 0 .. (HalfMod - 1)

\* static_cast<limb_type>(x)
ToLimb(x) == x % LimbMod
\* static_cast<limb_half_type>(x)
ToHalf(x) == x % HalfMod
\* static_cast<signed_limb_type>(x)
ToSigned(x) == IF x >= Pow2(limb_bits - 1) THEN x - LimbMod ELSE x
\* x >> n on limb_type
Shr(x, n) == x \div Pow2(n)
\* x << n on limb_type
Shl(x, n) == (x * Pow2(n)) % LimbMod
\* x >> n on signed_limb_type (arithmetic shift: floor division)
\* a slip in the shift of a signed limb: the shift is the logical one of the
\* unsigned type
AShrLogical(x, n) == ToLimb(x) \div Pow2(n)
AShr(x, n) == IF x >= 0 THEN x \div Pow2(n) ELSE -(((-x) + Pow2(n) - 1) \div Pow2(n))

RECURSIVE BitAndRec(_, _, _)
BitAndRec(a, b, n) ==
    IF n = 0 THEN 0
    ELSE (a % 2) * (b % 2) + 2 * BitAndRec(a \div 2, b \div 2, n - 1)

AndTable == [a \in Limb |-> [b \in Limb |-> BitAndRec(a, b, limb_bits)]]

\* the C++ operators &, |, ^ and ~ on limb_type
BitAnd(a, b) == AndTable[a][b]
BitOr(a, b) == a + b - AndTable[a][b]
BitXor(a, b) == a + b - 2 * AndTable[a][b]
BitNot(a) == limb_max - a

(***************************************************************************)
(* limb_span_bitwise.hpp: the operator descriptors.                        *)
(***************************************************************************)
unary_one(a) == ToLimb(-1)
\* a slip in unary_zero: the argument is returned
unary_zero_returning_argument(a) == a
unary_zero(a) == 0
unary_neutral(a) == a
unary_not(a) == BitNot(a)

binary_and(l, r) == BitAnd(l, r)
\* a slip in binary_nand: ~l & r for ~(l & r)
binary_nand_unparenthesized(l, r) == BitAnd(BitNot(l), r)
binary_nand(l, r) == BitNot(BitAnd(l, r))
binary_or(l, r) == BitOr(l, r)
binary_nor(l, r) == BitNot(BitOr(l, r))
binary_xor(l, r) == BitXor(l, r)
binary_xnor(l, r) == BitNot(BitXor(l, r))
binary_less(l, r) == BitAnd(BitNot(l), r)
binary_greater(l, r) == BitAnd(l, BitNot(r))
binary_leq(l, r) == BitOr(BitNot(l), r)
binary_geq(l, r) == BitOr(l, BitNot(r))

UnaryFuncs == {"one", "zero", "neutral", "not"}
BinaryFuncs == {"and", "nand", "or", "nor", "xor", "xnor",
                "less", "greater", "leq", "geq"}

\* Func::operator()(limb_type)
Apply1(f, a) ==
    CASE f = "one" -> unary_one(a)
      [] f = "zero" -> unary_zero(a)
      [] f = "neutral" -> unary_neutral(a)
      [] f = "not" -> unary_not(a)

\* Func::operator()(limb_type, limb_type)
Apply2(f, l, r) ==
    CASE f = "and" -> binary_and(l, r)
      [] f = "nand" -> binary_nand(l, r)
      [] f = "or" -> binary_or(l, r)
      [] f = "nor" -> binary_nor(l, r)
      [] f = "xor" -> binary_xor(l, r)
      [] f = "xnor" -> binary_xnor(l, r)
      [] f = "less" -> binary_less(l, r)
      [] f = "greater" -> binary_greater(l, r)
      [] f = "leq" -> binary_leq(l, r)
      [] f = "geq" -> binary_geq(l, r)

\* typename Func::bind_one
bind_one(f) ==
    CASE f = "and" -> "neutral"
      [] f = "nand" -> "not"
      [] f = "or" -> "one"
      [] f = "nor" -> "zero"
      [] f = "xor" -> "not"
      [] f = "xnor" -> "neutral"
      [] f = "less" -> "not"
      [] f = "greater" -> "zero"
      [] f = "leq" -> "one"
      [] f = "geq" -> "neutral"

\* typename Func::bind_zero
bind_zero(f) ==
    CASE f = "and" -> "zero"
      [] f = "nand" -> "one"
      [] f = "or" -> "neutral"
      [] f = "nor" -> "not"
      [] f = "xor" -> "neutral"
      [] f = "xnor" -> "not"
      [] f = "less" -> "zero"
      [] f = "greater" -> "neutral"
      [] f = "leq" -> "not"
      [] f = "geq" -> "one"

\* typename Func::flip (binary_greater names itself as its flip)
flip(f) ==
    CASE f = "and" -> "and"
      [] f = "nand" -> "nand"
      [] f = "or" -> "or"
      [] f = "nor" -> "nor"
      [] f = "xor" -> "xor"
      [] f = "xnor" -> "xnor"
      [] f = "less" -> "greater"
      [] f = "greater" -> "greater"
      [] f = "leq" -> "geq"
      [] f = "geq" -> "leq"

unroll_large == 16
unroll_small == 4

(***************************************************************************)
(* Storage.  A span is a record [base, len] into the caller's memory, a    *)
(* function from addresses to limbs.  An execution state st carries the    *)
(* memory and the sets of addresses read and written so far.               *)
(***************************************************************************)
Span(b, n) == [base |-> b, len |-> n]
Begin(v) == v.base
End(v) == v.base + v.len
Range(p, n) == p .. (p + n - 1)
Min2(a, b) == IF a <= b THEN a ELSE b
\* a slip in std::min({d.size(), l.size(), r.size()}): the destination is left out
Min3WithoutFirst(a, b, c) == Min2(b, c)
Min3(a, b, c) == Min2(a, Min2(b, c))

\* span_utils::skip: the span without its first n elements
skip(v, n) == Span(v.base + n, v.len - n)

\* a slip in limb_span_sign_extension: all ones for every signed view that
\* is not empty, whatever its top bit
sign_extension_ignoring_top_bit(Signed, m, arg) ==
    IF Signed /\ arg.len # 0 THEN ToLimb(-1) ELSE 0

\* limb_span_sign_extension<Signed>(arg), reading memory m
limb_span_sign_extension(Signed, m, arg) ==
    IF Signed /\ arg.len # 0
    THEN ToLimb(AShr(ToSigned(m[End(arg) - 1]), limb_bits - 1))
    ELSE 0

\* the addresses limb_span_sign_extension<Signed>(arg) reads
SignExtensionReads(Signed, arg) ==
    IF Signed /\ arg.len # 0 THEN {End(arg) - 1} ELSE {}

\* std::fill(first, last, v)
fill(st, first, last, v) ==
    [mem |-> [a \in DOMAIN st.mem |->
                 IF a >= first /\ a < last THEN v ELSE st.mem[a]],
     rd |-> st.rd,
     wr |-> st.wr \cup (first .. (last - 1))]

\* std::copy_n(src, n, dst)
copy_n(st, src, n, dst) ==
    [mem |-> [a \in DOMAIN st.mem |->
                 IF a \in Range(dst, n) THEN st.mem[src + (a - dst)] ELSE st.mem[a]],
     rd |-> st.rd \cup Range(src, n),
     wr |-> st.wr \cup Range(dst, n)]

\* unary_unroll_helper<N>(d, r, f, n): n limbs are copied out of r, mapped,
\* and copied into d
unary_unroll_helper(st, d, r, f, n) ==
    [mem |-> [a \in DOMAIN st.mem |->
                 IF a \in Range(d, n) THEN Apply1(f, st.mem[r + (a - d)])
                 ELSE st.mem[a]],
     rd |-> st.rd \cup Range(r, n),
     wr |-> st.wr \cup Range(d, n)]

\* binary_unroll_helper<N>(d, l, r, f, n) with r an iterator
binary_unroll_helper(st, d, l, r, f, n) ==
    [mem |-> [a \in DOMAIN st.mem |->
                 IF a \in Range(d, n)
                 THEN Apply2(f, st.mem[l + (a - d)], st.mem[r + (a - d)])
                 ELSE st.mem[a]],
     rd |-> st.rd \cup Range(l, n) \cup Range(r, n),
     wr |-> st.wr \cup Range(d, n)]

\* binary_unroll_helper<N>(d, l, r, f, n) with r a limb
binary_unroll_helper_limb(st, d, l, r, f, n) ==
    [mem |-> [a \in DOMAIN st.mem |->
                 IF a \in Range(d, n) THEN Apply2(f, st.mem[l + (a - d)], r)
                 ELSE st.mem[a]],
     rd |-> st.rd \cup Range(l, n),
     wr |-> st.wr \cup Range(d, n)]

\* the batch counts of the three loops of every *_unroll function
LargeBatches(count) == count \div unroll_large
SmallBatches(count) == (count % unroll_large) \div unroll_small
Remainder(count) == (count % unroll_large) % unroll_small

\* for (i = batches; i > 0; --i, d += N, r += N) unary_unroll_helper<N>(d, r, f)
RECURSIVE unary_unroll_loop(_, _, _, _, _, _)
unary_unroll_loop(st, d, r, f, i, N) ==
    IF i = 0 THEN st
    ELSE unary_unroll_loop(unary_unroll_helper(st, d, r, f, N), d + N, r + N, f, i - 1, N)

\* for (...; --i, d += N, l += N, r += N) binary_unroll_helper<N>(d, l, r, f)
RECURSIVE binary_unroll_loop(_, _, _, _, _, _, _)
binary_unroll_loop(st, d, l, r, f, i, N) ==
    IF i = 0 THEN st
    ELSE binary_unroll_loop(binary_unroll_helper(st, d, l, r, f, N),
                            d + N, l + N, r + N, f, i - 1, N)

\* for (...; --i, d += N, l += N) binary_unroll_helper<N>(d, l, r, f), r a limb
RECURSIVE binary_unroll_loop_limb(_, _, _, _, _, _, _)
binary_unroll_loop_limb(st, d, l, r, f, i, N) ==
    IF i = 0 THEN st
    ELSE binary_unroll_loop_limb(binary_unroll_helper_limb(st, d, l, r, f, N),
                                 d + N, l + N, r, f, i - 1, N)

unary_unroll(st, d, r, f, count) ==
    LET nl == LargeBatches(count)
        ns == SmallBatches(count)
        s1 == unary_unroll_loop(st, d, r, f, nl, unroll_large)
        o1 == nl * unroll_large
        s2 == unary_unroll_loop(s1, d + o1, r + o1, f, ns, unroll_small)
        o2 == o1 + ns * unroll_small
    IN  unary_unroll_helper(s2, d + o2, r + o2, f, Remainder(count))

\* the source and the destination iterator are the same iterator d
unary_inplace_unroll(st, d, f, count) ==
    LET nl == LargeBatches(count)
        ns == SmallBatches(count)
        s1 == unary_unroll_loop(st, d, d, f, nl, unroll_large)
        o1 == nl * unroll_large
        s2 == unary_unroll_loop(s1, d + o1, d + o1, f, ns, unroll_small)
        o2 == o1 + ns * unroll_small
    IN  unary_unroll_helper(s2, d + o2, d + o2, f, Remainder(count))

binary_unroll(st, d, l, r, f, count) ==
    LET nl == LargeBatches(count)
        ns == SmallBatches(count)
        s1 == binary_unroll_loop(st, d, l, r, f, nl, unroll_large)
        o1 == nl * unroll_large
        s2 == binary_unroll_loop(s1, d + o1, l + o1, r + o1, f, ns, unroll_small)
        o2 == o1 + ns * unroll_small
    IN  binary_unroll_helper(s2, d + o2, l + o2, r + o2, f, Remainder(count))

binary_inplace_unroll(st, d, r, f, count) ==
    LET nl == LargeBatches(count)
        ns == SmallBatches(count)
        s1 == binary_unroll_loop(st, d, d, r, f, nl, unroll_large)
        o1 == nl * unroll_large
        s2 == binary_unroll_loop(s1, d + o1, d + o1, r + o1, f, ns, unroll_small)
        o2 == o1 + ns * unroll_small
    IN  binary_unroll_helper(s2, d + o2, d + o2, r + o2, f, Remainder(count))

binary_unroll_limb(st, d, l, r, f, count) ==
    LET nl == LargeBatches(count)
        ns == SmallBatches(count)
        s1 == binary_unroll_loop_limb(st, d, l, r, f, nl, unroll_large)
        o1 == nl * unroll_large
        s2 == binary_unroll_loop_limb(s1, d + o1, l + o1, r, f, ns, unroll_small)
        o2 == o1 + ns * unroll_small
    IN  binary_unroll_helper_limb(s2, d + o2, l + o2, r, f, Remainder(count))

binary_inplace_unroll_limb(st, d, r, f, count) ==
    LET nl == LargeBatches(count)
        ns == SmallBatches(count)
        s1 == binary_unroll_loop_limb(st, d, d, r, f, nl, unroll_large)
        o1 == nl * unroll_large
        s2 == binary_unroll_loop_limb(s1, d + o1, d + o1, r, f, ns, unroll_small)
        o2 == o1 + ns * unroll_small
    IN  binary_unroll_helper_limb(s2, d + o2, d + o2, r, f, Remainder(count))

\* st after the reads of one limb_span_sign_extension call
WithReads(st, addrs) == [st EXCEPT !.rd = st.rd \cup addrs]

(***************************************************************************)
(* limb_span_bitwise.hpp: the engine.                                      *)
(***************************************************************************)
\* a slip in unary_inplace: the identity is handled like the constant
\* functions and fills d
unary_inplace_neutral_filled(st, d, f) ==
    IF f \in {"one", "zero", "neutral"} THEN fill(st, Begin(d), End(d), Apply1(f, 0))
    ELSE unary_inplace_unroll(st, Begin(d), f, d.len)

unary_inplace(st, d, f) ==
    IF f \in {"one", "zero"} THEN fill(st, Begin(d), End(d), Apply1(f, 0))
    ELSE IF f = "neutral" THEN st
    ELSE unary_inplace_unroll(st, Begin(d), f, d.len)

\* a slip in unary: the limbs of d above r are not filled
unary_without_tail_fill(RSigned, st, d, r, f) ==
    IF f \in {"one", "zero"} THEN fill(st, Begin(d), End(d), Apply1(f, 0))
    ELSE IF f = "neutral" THEN copy_n(st, Begin(r), Min2(d.len, r.len), Begin(d))
    ELSE unary_unroll(st, Begin(d), Begin(r), f, Min2(d.len, r.len))

unary(RSigned, st, d, r, f) ==
    IF f \in {"one", "zero"} THEN fill(st, Begin(d), End(d), Apply1(f, 0))
    ELSE IF f = "neutral" THEN copy_n(st, Begin(r), Min2(d.len, r.len), Begin(d))
    ELSE LET s1 == unary_unroll(st, Begin(d), Begin(r), f, Min2(d.len, r.len))
         IN  IF d.len <= r.len THEN s1
             ELSE fill(WithReads(s1, SignExtensionReads(RSigned, r)),
                       Begin(d) + r.len, End(d),
                       Apply1(f, limb_span_sign_extension(RSigned, s1.mem, r)))

\* binary_inplace(D d, limb_type r, Func f)
binary_inplace_limb(Branchless, RSigned, st, d, r, f) ==
    IF ~RSigned THEN unary_inplace(st, d, bind_zero(f))
    ELSE IF ~Branchless
         THEN IF r # 0 THEN unary_inplace(st, d, bind_one(f))
              ELSE unary_inplace(st, d, bind_zero(f))
         ELSE binary_inplace_unroll_limb(st, Begin(d), r, f, d.len)

\* binary(D d, L l, limb_type r, Func f)
binary_limb(Branchless, LSigned, RSigned, st, d, l, r, f) ==
    IF ~RSigned THEN unary(LSigned, st, d, l, bind_zero(f))
    ELSE IF ~Branchless
         THEN IF r # 0 THEN unary(LSigned, st, d, l, bind_one(f))
              ELSE unary(LSigned, st, d, l, bind_zero(f))
         ELSE LET s1 == binary_unroll_limb(st, Begin(d), Begin(l), r, f,
                                           Min2(d.len, l.len))
              IN  IF d.len <= l.len THEN s1
                  ELSE fill(WithReads(s1, SignExtensionReads(LSigned, l)),
                            Begin(d) + l.len, End(d),
                            Apply2(f, limb_span_sign_extension(LSigned, s1.mem, l), r))

\* binary_inplace(D d, R r, Func f)
binary_inplace(Branchless, RSigned, st, d, r, f) ==
    LET s1 == binary_inplace_unroll(st, Begin(d), Begin(r), f, Min2(d.len, r.len))
    IN  IF d.len <= r.len THEN s1
        ELSE LET dtail == skip(d, r.len)
                 rext == limb_span_sign_extension(RSigned, s1.mem, r)
             IN  binary_inplace_limb(Branchless, RSigned,
                                     WithReads(s1, SignExtensionReads(RSigned, r)),
                                     dtail, rext, f)

\* binary(D d, L l, R r, Func f)
binary(Branchless, LSigned, RSigned, st, d, l, r, f) ==
    LET minSize == Min3(d.len, l.len, r.len)
        s1 == binary_unroll(st, Begin(d), Begin(l), Begin(r), f, minSize)
    IN  IF d.len <= minSize THEN s1
        ELSE IF l.len > r.len
        THEN LET dtail == skip(d, r.len)
                 ltail == skip(l, r.len)
                 rext == limb_span_sign_extension(RSigned, s1.mem, r)
             IN  binary_limb(Branchless, LSigned, RSigned,
                             WithReads(s1, SignExtensionReads(RSigned, r)),
                             dtail, ltail, rext, f)
        ELSE IF l.len < r.len
        THEN LET dtail == skip(d, l.len)
                 lext == limb_span_sign_extension(LSigned, s1.mem, l)
                 rtail == skip(r, l.len)
             IN  binary_limb(Branchless, RSigned, LSigned,
                             WithReads(s1, SignExtensionReads(LSigned, l)),
                             dtail, rtail, lext, flip(f))
        ELSE LET lext == limb_span_sign_extension(LSigned, s1.mem, l)
                 rext == limb_span_sign_extension(RSigned, s1.mem, r)
             IN  fill(WithReads(s1, SignExtensionReads(LSigned, l)
                                     \cup SignExtensionReads(RSigned, r)),
                      Begin(d) + l.len, End(d), Apply2(f, lext, rext))

(***************************************************************************)
(* limb_span_base.hpp: the configuration token, a set of option names.     *)
(* The bitwise engine tests left_signed_option, right_signed_option and    *)
(* branchless_option only.                                                 *)
(***************************************************************************)
left_signed_option == "left_signed"
right_signed_option == "right_signed"
branchless_option == "branchless"
BitwiseOptions == SUBSET {left_signed_option, right_signed_option, branchless_option}
UnaryOptions == SUBSET {right_signed_option}
InplaceOptions == SUBSET {right_signed_option, branchless_option}

unary_inplace_dispatch(Opt, st, d, f) == unary_inplace(st, d, f)

\* a slip in unary_dispatch: a source marked "right_mutable" is used as scratch
\* space and left complemented
unary_dispatch_using_mutable_source(Opt, st, d, r, f) ==
    LET done == unary(right_signed_option \in Opt, st, d, r, f)
    IN  IF "right_mutable" \in Opt THEN unary_inplace(done, r, "not") ELSE done

unary_dispatch(Opt, st, d, r, f) ==
    unary(right_signed_option \in Opt, st, d, r, f)

binary_inplace_dispatch(Opt, st, d, r, f) ==
    binary_inplace(branchless_option \in Opt, right_signed_option \in Opt, st, d, r, f)

binary_dispatch(Opt, st, d, l, r, f) ==
    binary(branchless_option \in Opt, left_signed_option \in Opt,
           right_signed_option \in Opt, st, d, l, r, f)

\* the public entry points limb_span_bitnot_inplace, limb_span_bitnot,
\* limb_span_bit<op>_inplace and limb_span_bit<op>
limb_span_bitnot_inplace(Opt, st, d) == unary_inplace_dispatch(Opt, st, d, "not")
limb_span_bitnot(Opt, st, d, r) == unary_dispatch(Opt, st, d, r, "not")
limb_span_bitop_inplace(op, Opt, st, d, r) == binary_inplace_dispatch(Opt, st, d, r, op)
limb_span_bitop(op, Opt, st, d, l, r) == binary_dispatch(Opt, st, d, l, r, op)

(***************************************************************************)
(* The caller of the bitwise engine.  The caller's memory holds three      *)
(* regions, each followed by one limb that belongs to no span.  The left   *)
(* operand lies in the first region and the right operand in the second;   *)
(* the destination lies in the third region, or begins at the address of   *)
(* the left or of the right operand.                                       *)
(***************************************************************************)
\* a length that runs every loop of the unrolled kernels at least once
BigLen == unroll_large + unroll_small + 1
SpanLens == (0 .. MaxLen) \cup {BigLen}
MaxSpan == IF MaxLen > BigLen THEN MaxLen ELSE BigLen
RegionSize == MaxSpan + 1
LBase == 0 * RegionSize + 1
RBase == 1 * RegionSize + 1
DBase == 2 * RegionSize + 1
Addr == 1 .. (3 * RegionSize)
AliasModes == {"none", "dl", "dr"}

NoCall == [kind |-> "none"]
NoRet == [kind |-> "none"]
EmptyLog == [rd |-> {}, wr |-> {}]

Views(alias, dlen, llen, rlen) ==
    [d |-> Span(CASE alias = "none" -> DBase
                  [] alias = "dl" -> LBase
                  [] alias = "dr" -> RBase, dlen),
     l |-> Span(LBase, llen),
     r |-> Span(RBase, rlen),
     alias |-> alias]

\* limb patterns: in every pair of a left and a right limb each of the four
\* combinations of two bits occurs at some bit position
LowHalfOnes == HalfMod - 1
AlternatingBits == limb_max \div 3
LeftLimb(i, len, top) ==
    IF i = len - 1 THEN (IF top THEN limb_max - LowHalfOnes ELSE LowHalfOnes)
    ELSE IF i % 2 = 0 THEN LowHalfOnes ELSE limb_max - LowHalfOnes
RightLimb(i, len, top) ==
    IF i = len - 1 THEN (IF top THEN limb_max - AlternatingBits ELSE AlternatingBits)
    ELSE IF i % 2 = 0 THEN limb_max - AlternatingBits ELSE AlternatingBits
\* what the destination and the limbs outside every span hold before the call
FillLimb(dfill) == IF dfill THEN 1 ELSE limb_max - 1

InSpan(a, v) == a >= Begin(v) /\ a < End(v)

InitMem(vs, ltop, rtop, dfill) ==
    [a \in Addr |->
        IF InSpan(a, vs.l) THEN LeftLimb(a - vs.l.base, vs.l.len, ltop)
        ELSE IF InSpan(a, vs.r) THEN RightLimb(a - vs.r.base, vs.r.len, rtop)
        ELSE FillLimb(dfill)]

InitBit ==
    \E alias \in AliasModes, dlen \in SpanLens, llen \in SpanLens, rlen \in SpanLens,
       ltop \in BOOLEAN, rtop \in BOOLEAN, dfill \in BOOLEAN :
        /\ views = Views(alias, dlen, llen, rlen)
        /\ mem0 = InitMem(views, ltop, rtop, dfill)
        /\ mem = mem0
        /\ pc = "ready"
        /\ call = NoCall
        /\ log = EmptyLog
        /\ ret = NoRet

Start == [mem |-> mem, rd |-> {}, wr |-> {}]

Finish(st, c) ==
    /\ mem' = st.mem
    /\ log' = [rd |-> st.rd, wr |-> st.wr]
    /\ call' = c
    /\ pc' = "done"
    /\ UNCHANGED <<views, mem0, ret>>

\* limb_span_bit<op><Opt>(d, l, r)
CallBinary ==
    /\ pc = "ready"
    /\ \E op \in BinaryFuncs, Opt \in BitwiseOptions :
          Finish(limb_span_bitop(op, Opt, Start, views.d, views.l, views.r),
                 [kind |-> "binary", f |-> op, opt |-> Opt])

\* limb_span_bit<op>_inplace<Opt>(d, r): there is no left operand
CallBinaryInplace ==
    /\ pc = "ready"
    /\ views.l.len = 0
    /\ views.alias # "dl"
    /\ \E op \in BinaryFuncs, Opt \in InplaceOptions :
          Finish(limb_span_bitop_inplace(op, Opt, Start, views.d, views.r),
                 [kind |-> "binary_inplace", f |-> op, opt |-> Opt])

\* limb_span_bitnot<Opt>(d, r)
CallBitnot ==
    /\ pc = "ready"
    /\ views.l.len = 0
    /\ views.alias # "dl"
    /\ \E Opt \in UnaryOptions :
          Finish(limb_span_bitnot(Opt, Start, views.d, views.r),
                 [kind |-> "bitnot", f |-> "not", opt |-> Opt])

\* limb_span_bitnot_inplace<Opt>(d): there is no operand but d
CallBitnotInplace ==
    /\ pc = "ready"
    /\ views.l.len = 0
    /\ views.r.len = 0
    /\ views.alias = "none"
    /\ Finish(limb_span_bitnot_inplace({}, Start, views.d),
              [kind |-> "bitnot_inplace", f |-> "not", opt |-> {}])

NextBit == CallBinary \/ CallBinaryInplace \/ CallBitnot \/ CallBitnotInplace

SpecBit == InitBit /\ [][NextBit]_vars

(***************************************************************************)
(* Properties of the bitwise engine.                                       *)
(***************************************************************************)
Done(kind) == pc = "done" /\ call.kind = kind
LSignedOf(c) == left_signed_option \in c.opt
RSignedOf(c) == right_signed_option \in c.opt
Indices(v) == 0 .. (v.len - 1)

\* the sign-extension word of a view: all-ones if the view is read as signed,
\* is not empty and has the top bit of its last limb set, else zero
SignWord(Signed, m, v) ==
    IF Signed /\ v.len > 0 /\ m[End(v) - 1] >= Pow2(limb_bits - 1) THEN limb_max ELSE 0

\* limb i of the value of view v, extended beyond its length
ExtLimb(Signed, m, v, i) == IF i < v.len THEN m[v.base + i] ELSE SignWord(Signed, m, v)

\* C1: after limb_span_bit<op>(d, l, r) with d disjoint from l and r, every
\* limb d[i], i < |d|, is f(L(i), R(i)), where L(i) and R(i) are the limbs of
\* l and r extended by their sign-extension words.
C1_BinaryElementwise ==
    (Done("binary") /\ views.alias = "none") =>
        \A i \in Indices(views.d) :
            mem[views.d.base + i] =
                Apply2(call.f, ExtLimb(LSignedOf(call), mem0, views.l, i),
                               ExtLimb(RSignedOf(call), mem0, views.r, i))

\* the operands a call reads: l and r, and d itself for the in-place forms
Operands(c) ==
    CASE c.kind = "binary" -> {views.l, views.r}
      [] c.kind = "binary_inplace" -> {views.d, views.r}
      [] c.kind = "bitnot" -> {views.r}
      [] c.kind = "bitnot_inplace" -> {views.d}

BitwiseKinds == {"binary", "binary_inplace", "bitnot", "bitnot_inplace"}

\* C3: no bitwise operation writes a limb at an index >= |d|: every address
\* written lies in d, memory outside d is unchanged, and every address read
\* lies in an operand at an index below min(|d|, |operand|).
C3_NoWriteBeyondDestination ==
    (pc = "done" /\ call.kind \in BitwiseKinds) =>
        /\ log.wr \subseteq Range(views.d.base, views.d.len)
        /\ \A a \in Addr : ~InSpan(a, views.d) => mem[a] = mem0[a]
        /\ \A a \in log.rd :
              \E v \in Operands(call) :
                  a \in Range(v.base, Min2(v.len, views.d.len))

\* a call with a destination shorter than an operand has written d to its end
C3_Witness ==
    /\ Done("binary")
    /\ views.d.len > 0
    /\ views.d.len < views.l.len
    /\ views.d.len < views.r.len
    /\ log.wr = Range(views.d.base, views.d.len)

\* the same call with the destination moved to a buffer of its own
DisjointRun ==
    LET st == [mem |-> mem0, rd |-> {}, wr |-> {}]
        d == Span(DBase, views.d.len)
    IN  IF call.kind = "binary"
        THEN limb_span_bitop(call.f, call.opt, st, d, views.l, views.r)
        ELSE limb_span_bitnot(call.opt, st, d, views.r)

\* C4: when d begins at the address of l or of r, the limbs written to d are
\* the limbs written when d is a disjoint buffer of the same length.
C4_AliasedDestination ==
    (pc = "done" /\ call.kind \in {"binary", "bitnot"} /\ views.alias # "none") =>
        \A i \in Indices(views.d) :
            (views.d.base + i) \in log.wr =>
                mem[views.d.base + i] = DisjointRun.mem[DBase + i]

\* the same call with branchless_option toggled
ToggledRun ==
    LET st == [mem |-> mem0, rd |-> {}, wr |-> {}]
        Opt == IF branchless_option \in call.opt
               THEN call.opt \ {branchless_option}
               ELSE call.opt \cup {branchless_option}
    IN  IF call.kind = "binary"
        THEN limb_span_bitop(call.f, Opt, st, views.d, views.l, views.r)
        ELSE limb_span_bitop_inplace(call.f, Opt, st, views.d, views.r)

\* C5: the destination holds the same limbs after a call with
\* branchless_option as after the same call without it.
C5_BranchlessNoEffect ==
    (pc = "done" /\ call.kind \in {"binary", "binary_inplace"}) =>
        \A i \in Indices(views.d) :
            mem[views.d.base + i] = ToggledRun.mem[views.d.base + i]

(***************************************************************************)
(* limb_span_compare.hpp: the comparison engine.  An ordering is one of    *)
(* "less", "equal", "greater"; spans are read out of memory m, limb i of   *)
(* span v at address v.base + i, least significant limb first.             *)
(***************************************************************************)
Ordering == {"less", "equal", "greater"}

\* a <=> b on limb_type or on signed_limb_type
Compare3(a, b) == IF a < b THEN "less" ELSE IF a > b THEN "greater" ELSE "equal"

\* 0 <=> o
Reverse(o) ==
    CASE o = "less" -> "greater"
      [] o = "greater" -> "less"
      [] o = "equal" -> "equal"

\* for (; li != le; ++li, ++ri) if (*li != *ri) return *li <=> *ri;
\* i counts the limbs still to visit, from the most significant downwards
RECURSIVE compare_common(_, _, _, _)
compare_common(m, l, r, i) ==
    IF i = 0 THEN "equal"
    ELSE LET a == m[l.base + i - 1]
             b == m[r.base + i - 1]
         IN  IF a # b THEN Compare3(a, b) ELSE compare_common(m, l, r, i - 1)

\* for (; li != lm; ++li) if (*li != rext) return *li <=> rext;
\* followed by the loop over the common limbs; i is the index above li
RECURSIVE compare_extension(_, _, _, _, _)
compare_extension(m, l, r, rext, i) ==
    IF i = r.len THEN compare_common(m, l, r, i)
    ELSE LET a == m[l.base + i - 1]
         IN  IF a # rext THEN Compare3(a, rext)
             ELSE compare_extension(m, l, r, rext, i - 1)

\* a slip in compare_promoted: the top limb is never compared as signed
compare_promoted_always_unsigned(LSigned, RSigned, m, l, r) ==
    IF l.len = 0 THEN "equal"
    ELSE IF l.len > r.len
    THEN compare_extension(m, l, r, limb_span_sign_extension(RSigned, m, r), l.len)
    ELSE compare_common(m, l, r, l.len)

\* a slip in compare_promoted: the shorter operand is extended with zeros
\* whatever its signedness flag
compare_promoted_zero_extended(LSigned, RSigned, m, l, r) ==
    IF l.len = 0 THEN "equal"
    ELSE IF l.len > r.len
    THEN LET rext == 0
             top == m[End(l) - 1]
         IN  IF LSigned
             THEN IF top # rext THEN Compare3(ToSigned(top), ToSigned(rext))
                  ELSE compare_extension(m, l, r, rext, l.len - 1)
             ELSE compare_extension(m, l, r, rext, l.len)
    ELSE IF LSigned /\ RSigned
    THEN LET a == m[End(l) - 1]
             b == m[End(r) - 1]
         IN  IF a # b THEN Compare3(ToSigned(a), ToSigned(b))
             ELSE compare_common(m, l, r, l.len - 1)
    ELSE compare_common(m, l, r, l.len)

\* _detail_limb_span_compare::compare_promoted<LSigned, RSigned>(l, r),
\* called with l.size() >= r.size()
compare_promoted(LSigned, RSigned, m, l, r) ==
    IF l.len = 0 THEN "equal"
    ELSE IF l.len > r.len
    THEN LET rext == limb_span_sign_extension(RSigned, m, r)
             top == m[End(l) - 1]
         IN  IF LSigned
             THEN IF top # rext THEN Compare3(ToSigned(top), ToSigned(rext))
                  ELSE compare_extension(m, l, r, rext, l.len - 1)
             ELSE compare_extension(m, l, r, rext, l.len)
    ELSE IF LSigned /\ RSigned
    THEN LET a == m[End(l) - 1]
             b == m[End(r) - 1]
         IN  IF a # b THEN Compare3(ToSigned(a), ToSigned(b))
             ELSE compare_common(m, l, r, l.len - 1)
    ELSE compare_common(m, l, r, l.len)

\* a slip in compare_infinite: the sign extensions are compared as unsigned
compare_infinite_unsigned_extensions(LSigned, RSigned, m, l, r) ==
    LET lext == limb_span_sign_extension(LSigned, m, l)
        rext == limb_span_sign_extension(RSigned, m, r)
    IN  IF LSigned # RSigned /\ lext # rext THEN Compare3(lext, rext)
        ELSE compare_promoted(LSigned, RSigned, m, l, r)

\* a slip in compare_infinite: the sign extensions are not compared first
compare_infinite_without_signs(LSigned, RSigned, m, l, r) ==
    compare_promoted(LSigned, RSigned, m, l, r)

\* _detail_limb_span_compare::compare_infinite<LSigned, RSigned>(l, r),
\* called with l.size() >= r.size()
compare_infinite(LSigned, RSigned, m, l, r) ==
    LET lext == ToSigned(limb_span_sign_extension(LSigned, m, l))
        rext == ToSigned(limb_span_sign_extension(RSigned, m, r))
    IN  IF LSigned # RSigned /\ lext # rext THEN Compare3(lext, rext)
        ELSE compare_promoted(LSigned, RSigned, m, l, r)

\* a slip in limb_span_compare_promoted: the operands are swapped but their
\* signedness flags are not
compare_promoted_flags_not_swapped(Opt, m, l, r) ==
    LET LSigned == left_signed_option \in Opt
        RSigned == right_signed_option \in Opt
    IN  IF l.len >= r.len THEN compare_promoted(LSigned, RSigned, m, l, r)
        ELSE Reverse(compare_promoted(LSigned, RSigned, m, r, l))

\* limb_span_compare_promoted<Opt>(l, r)
limb_span_compare_promoted(Opt, m, l, r) ==
    LET LSigned == left_signed_option \in Opt
        RSigned == right_signed_option \in Opt
    IN  IF l.len >= r.len THEN compare_promoted(LSigned, RSigned, m, l, r)
        ELSE Reverse(compare_promoted(RSigned, LSigned, m, r, l))

\* limb_span_compare_infinite<Opt>(l, r)
limb_span_compare_infinite(Opt, m, l, r) ==
    LET LSigned == left_signed_option \in Opt
        RSigned == right_signed_option \in Opt
    IN  IF l.len >= r.len THEN compare_infinite(LSigned, RSigned, m, l, r)
        ELSE Reverse(compare_infinite(RSigned, LSigned, m, r, l))

(***************************************************************************)
(* The caller of the comparison engine: two operands of 0..MaxCmpLen limbs *)
(* each, side by side in memory; every limb is one of four limbs that      *)
(* differ in their signed and unsigned order.                              *)
(***************************************************************************)
CompareOptions == SUBSET {left_signed_option, right_signed_option}
CmpLimbs == {0, 1, Pow2(limb_bits - 1), limb_max}
CmpAddr == 1 .. (2 * MaxCmpLen)
CmpViews(llen, rlen) ==
    [d |-> Span(1, 0), l |-> Span(1, llen), r |-> Span(MaxCmpLen + 1, rlen),
     alias |-> "none"]

InitCmp ==
    \E llen \in 0 .. MaxCmpLen, rlen \in 0 .. MaxCmpLen :
        /\ views = CmpViews(llen, rlen)
        /\ mem0 \in [CmpAddr -> CmpLimbs]
        /\ \A a \in CmpAddr : (~InSpan(a, views.l) /\ ~InSpan(a, views.r)) => mem0[a] = 0
        /\ mem = mem0
        /\ pc = "ready"
        /\ call = NoCall
        /\ log = EmptyLog
        /\ ret = NoRet

Return(c, o) ==
    /\ ret' = [kind |-> "ordering", value |-> o]
    /\ call' = c
    /\ pc' = "done"
    /\ UNCHANGED <<views, mem0, mem, log>>

CallComparePromoted ==
    /\ pc = "ready"
    /\ \E Opt \in CompareOptions :
          Return([kind |-> "compare_promoted", opt |-> Opt],
                 limb_span_compare_promoted(Opt, mem, views.l, views.r))

CallCompareInfinite ==
    /\ pc = "ready"
    /\ \E Opt \in CompareOptions :
          Return([kind |-> "compare_infinite", opt |-> Opt],
                 limb_span_compare_infinite(Opt, mem, views.l, views.r))

NextCmp == CallComparePromoted \/ CallCompareInfinite

SpecCmp == InitCmp /\ [][NextCmp]_vars

(***************************************************************************)
(* Properties of the comparison engine.                                    *)
(***************************************************************************)
\* the unsigned value of the first n limbs of view v
RECURSIVE UnsignedValue(_, _, _)
UnsignedValue(m, v, n) ==
    IF n = 0 THEN 0
    ELSE m[v.base + n - 1] * Pow2(limb_bits * (n - 1)) + UnsignedValue(m, v, n - 1)

Negative(Signed, m, v) ==
    Signed /\ v.len > 0 /\ m[End(v) - 1] >= Pow2(limb_bits - 1)

\* the integer a view stands for: unsigned, or two's complement if Signed
Value(Signed, m, v) ==
    UnsignedValue(m, v, v.len)
        - (IF Negative(Signed, m, v) THEN Pow2(limb_bits * v.len) ELSE 0)

\* C2: limb_span_compare_infinite(l, r) is the order of the two integers
\* that l and r stand for, each read by its own signedness flag.
C2_InfiniteIsValueOrder ==
    Done("compare_infinite") =>
        ret.value = Compare3(Value(LSignedOf(call), mem, views.l),
                             Value(RSignedOf(call), mem, views.r))

\* a negative signed operand is compared with a longer unsigned one
C2_Witness ==
    /\ Done("compare_infinite")
    /\ views.l.len > 0
    /\ views.l.len < views.r.len
    /\ Negative(LSignedOf(call), mem, views.l)
    /\ ~RSignedOf(call)
    /\ mem[End(views.r) - 1] # 0
    /\ ret.value = "less"

\* the token with the left and the right signedness flag exchanged
SwapSigned(Opt) ==
    (IF left_signed_option \in Opt THEN {right_signed_option} ELSE {})
        \cup (IF right_signed_option \in Opt THEN {left_signed_option} ELSE {})

\* C6: compare(a, b) is the reverse of compare(b, a), each operand keeping
\* its own signedness, for the promoted and for the infinite comparison.
C6_CompareOrderIndependent ==
    /\ Done("compare_promoted") =>
          ret.value = Reverse(limb_span_compare_promoted(SwapSigned(call.opt), mem,
                                                         views.r, views.l))
    /\ Done("compare_infinite") =>
          ret.value = Reverse(limb_span_compare_infinite(SwapSigned(call.opt), mem,
                                                         views.r, views.l))

\* the left operand is the shorter one, of mixed signedness, and not equal
C6_Witness ==
    /\ Done("compare_promoted")
    /\ views.l.len > 0
    /\ views.l.len < views.r.len
    /\ LSignedOf(call) # RSignedOf(call)
    /\ ret.value = "less"

\* the example of C7: left is one limb of all ones read as signed, right is
\* the two limbs [0, 1] read as unsigned
C7_Example ==
    /\ views.l.len = 1
    /\ views.r.len = 2
    /\ mem[views.l.base] = limb_max
    /\ mem[views.r.base] = 0
    /\ mem[views.r.base + 1] = 1
    /\ call.opt = {left_signed_option}

\* the shorter operand is signed and negative, the longer one is unsigned
ShortNegLeft ==
    /\ views.l.len < views.r.len
    /\ Negative(LSignedOf(call), mem, views.l)
    /\ ~RSignedOf(call)
ShortNegRight ==
    /\ views.r.len < views.l.len
    /\ Negative(RSignedOf(call), mem, views.r)
    /\ ~LSignedOf(call)

UpperNotAllOnes(long, short) ==
    \E i \in short.len .. (long.len - 1) : mem[long.base + i] # limb_max

LongerUnsigned ==
    \/ views.l.len > views.r.len /\ ~LSignedOf(call)
    \/ views.r.len > views.l.len /\ ~RSignedOf(call)

\* the token with the signedness flag of the shorter operand toggled
ToggleShorter(Opt) ==
    LET flag == IF views.l.len < views.r.len THEN left_signed_option
                ELSE right_signed_option
    IN  IF flag \in Opt THEN Opt \ {flag} ELSE Opt \cup {flag}

\* C8 as claimed: when the longer operand is read as unsigned, the promoted
\* comparison is the same whether the shorter operand is flagged signed or
\* unsigned.
C8_AsClaimed ==
    (Done("compare_promoted") /\ LongerUnsigned) =>
        ret.value = limb_span_compare_promoted(ToggleShorter(call.opt), mem,
                                               views.l, views.r)

\* the top bit of the last limb of the shorter operand is set
ShorterTopBitSet ==
    LET short == IF views.l.len < views.r.len THEN views.l ELSE views.r
    IN  Negative(TRUE, mem, short)

\* C8, amended: when the longer operand is read as unsigned and the shorter
\* operand is empty or has the top bit of its last limb clear, the promoted
\* comparison is the same whether the shorter operand is flagged signed or
\* unsigned.
C8_ShorterFlagIgnoredIfTopClear ==
    (Done("compare_promoted") /\ LongerUnsigned /\ ~ShorterTopBitSet) =>
        ret.value = limb_span_compare_promoted(ToggleShorter(call.opt), mem,
                                               views.l, views.r)

\* a shorter operand flagged signed, with a clear top bit, has been compared
\* with a longer unsigned operand whose upper limbs are zero
C8_Witness ==
    /\ Done("compare_promoted")
    /\ views.r.len > 0
    /\ views.r.len < views.l.len
    /\ call.opt = {right_signed_option}
    /\ ~ShorterTopBitSet
    /\ \A i \in views.r.len .. (views.l.len - 1) : mem[views.l.base + i] = 0
    /\ ret.value = "less"

(***************************************************************************)
(* limb_type.hpp: the limb primitives.  A primitive that stores through a  *)
(* pointer and returns a value is an operator whose value is a record of   *)
(* both.  The build selects one implementation path of limb_mul and of     *)
(* limb_div: a compiler intrinsic or machine instruction, the double-width *)
(* integer type, or the portable half-limb code.                           *)
(***************************************************************************)
MulPaths == {"int128", "umul128", "portable"}
DivPaths == {"div", "int128", "portable"}

BoolToLimb(b) == IF b THEN 1 ELSE 0

\* limb_add(l, r, result)
limb_add2(l, r) ==
    LET res == ToLimb(l + r) IN [result |-> res, flag |-> res < l]

\* limb_sub(l, r, result)
limb_sub2(l, r) ==
    LET res == ToLimb(l - r) IN [result |-> res, flag |-> res > l]

\* limb_lzcount(arg): std::countl_zero
RECURSIVE CountLeadingZeros(_, _)
CountLeadingZeros(arg, n) ==
    IF n = 0 \/ arg >= Pow2(n - 1) THEN 0 ELSE 1 + CountLeadingZeros(arg, n - 1)
limb_lzcount(arg) == CountLeadingZeros(arg, limb_bits)

\* the two halves {low, high} of a limb, as ld[], rd[], cd[], dd[]
LowHalf(x) == ToHalf(x)
HighHalf(x) == ToHalf(Shr(x, limb_half_bits))
\* static_cast<limb_type>(high) << limb_half_bits | low
JoinHalves(high, low) == BitOr(Shl(high, limb_half_bits), low)

\* the portable code of limb_mul(l, r, high_result); lo, m1, m2 and hi are
\* the values of the four sums before they are reduced to limb_type
limb_mul2_portable(l, r) ==
    LET lo_sum == LowHalf(l) * LowHalf(r)
        lo == ToLimb(lo_sum)
        m1_sum == LowHalf(l) * HighHalf(r) + Shr(lo, limb_half_bits)
        m1 == ToLimb(m1_sum)
        m2_sum == HighHalf(l) * LowHalf(r) + ToHalf(m1)
        m2 == ToLimb(m2_sum)
        hi_sum == HighHalf(l) * HighHalf(r) + Shr(m2, limb_half_bits)
                      + Shr(m1, limb_half_bits)
    IN  [low |-> BitOr(ToHalf(lo), Shl(m2, limb_half_bits)),
         high |-> ToLimb(hi_sum),
         sums |-> <<lo_sum, m1_sum, m2_sum, hi_sum>>]

\* the portable code of limb_mul(l, r, c, high_result)
limb_mul3_portable(l, r, c) ==
    LET lo_sum == LowHalf(l) * LowHalf(r) + LowHalf(c)
        lo == ToLimb(lo_sum)
        m1_sum == LowHalf(l) * HighHalf(r) + HighHalf(c) + Shr(lo, limb_half_bits)
        m1 == ToLimb(m1_sum)
        m2_sum == HighHalf(l) * LowHalf(r) + ToHalf(m1)
        m2 == ToLimb(m2_sum)
        hi_sum == HighHalf(l) * HighHalf(r) + Shr(m2, limb_half_bits)
                      + Shr(m1, limb_half_bits)
    IN  [low |-> BitOr(ToHalf(lo), Shl(m2, limb_half_bits)),
         high |-> ToLimb(hi_sum),
         sums |-> <<lo_sum, m1_sum, m2_sum, hi_sum>>]

\* a slip in the portable code of limb_mul(l, r, c, d, high_result): the
\* high half of lo is added to m1, as the three-operand overload does
limb_mul4_portable_carry_into_m1(l, r, c, d) ==
    LET lo_sum == LowHalf(l) * LowHalf(r) + LowHalf(c) + LowHalf(d)
        lo == ToLimb(lo_sum)
        m1_sum == LowHalf(l) * HighHalf(r) + HighHalf(c) + HighHalf(d)
                      + Shr(lo, limb_half_bits)
        m1 == ToLimb(m1_sum)
        m2_sum == HighHalf(l) * LowHalf(r) + ToHalf(m1)
        m2 == ToLimb(m2_sum)
        hi_sum == HighHalf(l) * HighHalf(r) + Shr(m2, limb_half_bits)
                      + Shr(m1, limb_half_bits)
    IN  [low |-> BitOr(ToHalf(lo), Shl(m2, limb_half_bits)),
         high |-> ToLimb(hi_sum),
         sums |-> <<lo_sum, m1_sum, m2_sum, hi_sum>>]

\* the portable code of limb_mul(l, r, c, d, high_result)
limb_mul4_portable(l, r, c, d) ==
    LET lo_sum == LowHalf(l) * LowHalf(r) + LowHalf(c) + LowHalf(d)
        lo == ToLimb(lo_sum)
        m1_sum == LowHalf(l) * HighHalf(r) + HighHalf(c) + HighHalf(d)
        m1 == ToLimb(m1_sum)
        m2_sum == HighHalf(l) * LowHalf(r) + Shr(lo, limb_half_bits) + ToHalf(m1)
        m2 == ToLimb(m2_sum)
        hi_sum == HighHalf(l) * HighHalf(r) + Shr(m2, limb_half_bits)
                      + Shr(m1, limb_half_bits)
    IN  [low |-> BitOr(ToHalf(lo), Shl(m2, limb_half_bits)),
         high |-> ToLimb(hi_sum),
         sums |-> <<lo_sum, m1_sum, m2_sum, hi_sum>>]

\* unsigned __int128 tmp = ...; the low and the high limb of tmp
DoubleLimb(tmp) ==
    [low |-> ToLimb(tmp), high |-> ToLimb(Shr(tmp, limb_bits)), sums |-> <<>>]

\* l = _umul128(l, r, &r); r += limb_add(l, c, &l);
AddIntoDouble(p, c) ==
    LET a == limb_add2(p.low, c)
    IN  [low |-> a.result, high |-> ToLimb(p.high + BoolToLimb(a.flag)), sums |-> <<>>]

limb_mul2(path, l, r) ==
    IF path = "portable" THEN limb_mul2_portable(l, r) ELSE DoubleLimb(l * r)

limb_mul3(path, l, r, c) ==
    CASE path = "int128" -> DoubleLimb(l * r + c)
      [] path = "umul128" -> AddIntoDouble(DoubleLimb(l * r), c)
      [] path = "portable" -> limb_mul3_portable(l, r, c)

limb_mul4(path, l, r, c, d) ==
    CASE path = "int128" -> DoubleLimb(l * r + c + d)
      [] path = "umul128" -> AddIntoDouble(AddIntoDouble(DoubleLimb(l * r), c), d)
      [] path = "portable" -> limb_mul4_portable(l, r, c, d)

(***************************************************************************)
(* The caller of limb_mul: any two limbs and two addends out of a set of   *)
(* limbs around the boundaries of the two halves.                          *)
(***************************************************************************)
AddendLimbs == {0, 1, HalfMod - 1, HalfMod, limb_max - 1, limb_max}
NoViews == [d |-> Span(1, 0), l |-> Span(1, 0), r |-> Span(1, 0), alias |-> "none"]

InitArgs(args) ==
    /\ call = args
    /\ pc = "ready"
    /\ ret = NoRet
    /\ views = NoViews
    /\ mem0 = <<>>
    /\ mem = <<>>
    /\ log = EmptyLog

InitMul ==
    \E l \in Limb, r \in Limb, c \in AddendLimbs, d \in AddendLimbs :
        InitArgs([kind |-> "args", l |-> l, r |-> r, c |-> c, d |-> d])

ReturnLimbs(c, res) ==
    /\ ret' = res
    /\ call' = c
    /\ pc' = "done"
    /\ UNCHANGED <<views, mem0, mem, log>>

\* limb_mul(l, r, &high)
CallMul2 ==
    /\ pc = "ready"
    /\ call.c = 0
    /\ call.d = 0
    /\ \E path \in MulPaths :
          ReturnLimbs([call EXCEPT !.kind = "limb_mul2"] @@ [path |-> path],
                      limb_mul2(path, call.l, call.r))

\* limb_mul(l, r, c, &high)
CallMul3 ==
    /\ pc = "ready"
    /\ call.d = 0
    /\ \E path \in MulPaths :
          ReturnLimbs([call EXCEPT !.kind = "limb_mul3"] @@ [path |-> path],
                      limb_mul3(path, call.l, call.r, call.c))

\* limb_mul(l, r, c, d, &high)
CallMul4 ==
    /\ pc = "ready"
    /\ \E path \in MulPaths :
          ReturnLimbs([call EXCEPT !.kind = "limb_mul4"] @@ [path |-> path],
                      limb_mul4(path, call.l, call.r, call.c, call.d))

NextMul == CallMul2 \/ CallMul3 \/ CallMul4

SpecMul == InitMul /\ [][NextMul]_vars

MulKinds == {"limb_mul2", "limb_mul3", "limb_mul4"}

\* C10: limb_mul returns low and stores high with
\* high * 2^limb_bits + low = l * r + c + d, and in the portable code none
\* of the sums lo, m1, m2 and hi exceeds a limb.
C10_MulExact ==
    (pc = "done" /\ call.kind \in MulKinds) =>
        /\ ret.high * LimbMod + ret.low = call.l * call.r + call.c + call.d
        /\ ret.low \in Limb
        /\ ret.high \in Limb
        /\ call.path = "portable" =>
              \A k \in 1 .. 4 : ret.sums[k] <= limb_max

\* the portable code has multiplied the two largest limbs and added the two
\* largest addends: the result is the largest double limb
C10_Witness ==
    /\ Done("limb_mul4")
    /\ call.path = "portable"
    /\ call.l = limb_max /\ call.r = limb_max
    /\ call.c = limb_max /\ call.d = limb_max
    /\ ret.low = limb_max /\ ret.high = limb_max

(***************************************************************************)
(* limb_type.hpp: limb_div.  The arrays ld, rd and qd of half limbs are    *)
(* passed element by element; an operator's value is a record of the       *)
(* elements it stores.                                                     *)
(***************************************************************************)
\* a slip in limb_div_2_by_1: the remainder is not stored to l[0]
limb_div_2_by_1_remainder_not_stored(l0, l1, r0) ==
    LET tmp == JoinHalves(l1, l0)
    IN  [q |-> ToHalf(tmp \div r0), l0 |-> l0]

\* _detail_limb_type::limb_div_2_by_1(l, r, q): l[1]:l[0] divided by r[0],
\* the quotient to q[0] and the remainder to l[0]
limb_div_2_by_1(l0, l1, r0) ==
    LET tmp == JoinHalves(l1, l0)
    IN  [q |-> ToHalf(tmp \div r0), l0 |-> ToHalf(tmp % r0)]

\* if (ch > lh || (ch == lh && cl > ll)) { --q[0]; ch -= limb_sub(cl, rr, &cl); }
Validate(c, lh, ll, rr) ==
    IF c.ch > lh \/ (c.ch = lh /\ c.cl > ll)
    THEN LET s == limb_sub2(c.cl, rr)
         IN  [q |-> ToHalf(c.q - 1), cl |-> s.result,
              ch |-> ToHalf(c.ch - BoolToLimb(s.flag)), reduced |-> TRUE]
    ELSE [c EXCEPT !.reduced = FALSE]

\* _detail_limb_type::limb_div_3_by_2(l, r, q): l[2]:l[1]:l[0] divided by
\* r[1]:r[0], the quotient to q[0] and the remainder to l[1]:l[0]
limb_div_3_by_2(l0, l1, l2, r0, r1) ==
    IF l2 >= r1
    THEN LET prod == ToLimb(ToHalf(-1) * JoinHalves(r1, r0))
             tmp == ToLimb(JoinHalves(l1, l0) - prod)
         IN  [q |-> ToHalf(-1), l0 |-> ToHalf(tmp), l1 |-> HighHalf(tmp)]
    ELSE LET est == limb_div_2_by_1(l1, l2, r1)
             \* limb_div_2_by_1(l + 1, r + 1, q) has stored its remainder to l[1]
             ll == JoinHalves(est.l0, l0)
             lh == l2
             cl0 == ToLimb(est.q * r0)
             tmp == ToLimb(Shr(cl0, limb_half_bits) + est.q * r1)
             c0 == [q |-> est.q,
                    cl |-> BitOr(ToHalf(cl0), Shl(tmp, limb_half_bits)),
                    ch |-> HighHalf(tmp), reduced |-> FALSE]
             rr == JoinHalves(r1, r0)
             c1 == Validate(c0, lh, ll, rr)
             c2 == IF c1.reduced THEN Validate(c1, lh, ll, rr) ELSE c1
             rem == ToLimb(ll - c2.cl)
         IN  [q |-> c2.q, l0 |-> ToHalf(rem), l1 |-> HighHalf(rem)]

\* the portable code of limb_div: the fast version for a divisor whose high
\* half is zero, else normalization, two limb_div_3_by_2 steps and
\* denormalization.  The second store to rd[0] replaces the first and
\* rd[1] keeps its initial value 0.
limb_div_portable(l_high, l_low, r) ==
    IF Shr(r, limb_half_bits) = 0
    THEN LET rd0 == ToHalf(r)
             s1 == limb_div_2_by_1(HighHalf(l_low), ToHalf(l_high), rd0)
             s2 == limb_div_2_by_1(LowHalf(l_low), s1.l0, rd0)
         IN  [quotient |-> JoinHalves(s1.q, s2.q), remainder |-> s2.l0]
    ELSE LET n == limb_lzcount(r)
             h == IF n # 0 THEN BitOr(Shl(l_high, n), Shr(l_low, limb_bits - n))
                  ELSE l_high
             lw == IF n # 0 THEN Shl(l_low, n) ELSE l_low
             rn == IF n # 0 THEN Shl(r, n) ELSE r
             rd0 == HighHalf(rn)
             rd1 == 0
             s1 == limb_div_3_by_2(HighHalf(lw), LowHalf(h), HighHalf(h), rd0, rd1)
             s2 == limb_div_3_by_2(LowHalf(lw), s1.l0, s1.l1, rd0, rd1)
         IN  [quotient |-> JoinHalves(s1.q, s2.q),
              remainder |-> Shr(JoinHalves(s2.l1, s2.l0), n)]

\* limb_div(l_high, l_low, r, remainder), called with l_high < r: the div
\* instruction and the double-width division are exact
limb_div(path, l_high, l_low, r) ==
    IF path = "portable" THEN limb_div_portable(l_high, l_low, r)
    ELSE LET tmp == l_high * LimbMod + l_low
         IN  [quotient |-> ToLimb(tmp \div r), remainder |-> ToLimb(tmp % r)]

(***************************************************************************)
(* The caller of limb_div: every dividend and divisor with l_high < r.     *)
(***************************************************************************)
InitDiv ==
    \E l_high \in Limb, l_low \in Limb, r \in Limb :
        /\ l_high < r
        /\ InitArgs([kind |-> "args", l_high |-> l_high, l_low |-> l_low, r |-> r])

CallDiv ==
    /\ pc = "ready"
    /\ \E path \in DivPaths :
          ReturnLimbs([call EXCEPT !.kind = "limb_div"] @@ [path |-> path],
                      limb_div(path, call.l_high, call.l_low, call.r))

NextDiv == CallDiv

SpecDiv == InitDiv /\ [][NextDiv]_vars

\* C9: limb_div called with l_high < r returns q and stores rem with
\* q * r + rem = l_high * 2^limb_bits + l_low and rem < r, on every
\* implementation path.
C9_DivExact ==
    Done("limb_div") =>
        /\ ret.quotient * call.r + ret.remainder = call.l_high * LimbMod + call.l_low
        /\ ret.remainder < call.r

(***************************************************************************)
(* A caller that multiplies two limbs and divides the double limb by the   *)
(* second factor: limb_mul(l, r, &high) then limb_div(high, low, r, &rem). *)
(***************************************************************************)
InitMulDiv ==
    \E l \in Limb, r \in Limb :
        /\ r # 0
        /\ InitArgs([kind |-> "args", l |-> l, r |-> r])

CallMulThenDiv ==
    /\ pc = "ready"
    /\ \E mul_path \in MulPaths, div_path \in DivPaths :
          LET p == limb_mul2(mul_path, call.l, call.r)
              q == limb_div(div_path, p.high, p.low, call.r)
          IN  ReturnLimbs([call EXCEPT !.kind = "mul_div"]
                              @@ [mul_path |-> mul_path, div_path |-> div_path],
                          [low |-> p.low, high |-> p.high,
                           quotient |-> q.quotient, remainder |-> q.remainder])

NextMulDiv == CallMulThenDiv

SpecMulDiv == InitMulDiv /\ [][NextMulDiv]_vars

\* C11: for all limbs l and r # 0, limb_mul(l, r) with zero addends followed
\* by limb_div(high, low, r) has high < r and yields quotient l, remainder 0.
C11_MulDivInverse ==
    Done("mul_div") =>
        /\ ret.high < call.r
        /\ ret.quotient = call.l
        /\ ret.remainder = 0

\* the same law on the paths of limb_div that do not use the half-limb code
C11_ExactPathsInverse ==
    (Done("mul_div") /\ call.div_path # "portable") =>
        /\ ret.high < call.r
        /\ ret.quotient = call.l
        /\ ret.remainder = 0

(***************************************************************************)
(* limb_type.hpp: limb_inc, limb_dec, limb_neg and the three-operand       *)
(* limb_add and limb_sub.  An operator's value is the limb stored through  *)
(* the result pointer and the returned flag.                               *)
(***************************************************************************)
\* the branches of limb_add(carry, l, r, result) and limb_sub(borrow, ...):
\* the 64-bit carry intrinsic, two 32-bit carry intrinsics, the portable code
ArithPaths == {"intrinsic", "half_intrinsic", "portable"}

\* limb_inc(arg, result)
limb_inc1(arg) ==
    LET res == ToLimb(arg + 1) IN [result |-> res, flag |-> res < arg]

\* a slip in limb_inc(carry, arg, result): the flag tells whether the result
\* is zero
limb_inc2_flag_result_zero(carry, arg) ==
    LET res == ToLimb(arg + BoolToLimb(carry)) IN [result |-> res, flag |-> res = 0]

\* limb_inc(carry, arg, result)
limb_inc2(carry, arg) ==
    LET res == ToLimb(arg + BoolToLimb(carry)) IN [result |-> res, flag |-> res < arg]

\* limb_dec(arg, result)
limb_dec1(arg) ==
    LET res == ToLimb(arg - 1) IN [result |-> res, flag |-> res > arg]

\* a slip in limb_dec(borrow, arg, result): the comparison is not strict
limb_dec2_flag_not_strict(borrow, arg) ==
    LET res == ToLimb(arg - BoolToLimb(borrow)) IN [result |-> res, flag |-> res >= arg]

\* a slip in limb_dec(borrow, arg, result): the flag tells whether arg is zero
limb_dec2_flag_arg_zero(borrow, arg) ==
    LET res == ToLimb(arg - BoolToLimb(borrow)) IN [result |-> res, flag |-> arg = 0]

\* limb_dec(borrow, arg, result)
limb_dec2(borrow, arg) ==
    LET res == ToLimb(arg - BoolToLimb(borrow)) IN [result |-> res, flag |-> res > arg]

\* limb_neg(arg, result)
limb_neg1(arg) ==
    LET res == ToLimb(0 - arg) IN [result |-> res, flag |-> res = 0]

\* a slip in limb_neg(carry, arg, result): the argument is not complemented
limb_neg2_without_complement(carry, arg) == limb_inc2(carry, arg)

\* limb_neg(carry, arg, result)
limb_neg2(carry, arg) == limb_inc2(carry, BitNot(arg))

\* _addcarry_u64 / _addcarry_u32 on operands of the given modulus: the sum
\* with carry-in, and the carry-out
addcarry(mod, carry, a, b) ==
    LET sum == a + b + BoolToLimb(carry)
    IN  [result |-> sum % mod, flag |-> sum >= mod]

\* _subborrow_u64 / _subborrow_u32: the difference with borrow-in, and the
\* borrow-out
subborrow(mod, borrow, a, b) ==
    LET diff == a - b - BoolToLimb(borrow)
    IN  [result |-> diff % mod, flag |-> diff < 0]

\* a slip in the portable code of limb_add(carry, l, r, result): the two
\* step flags are combined with && instead of ||
limb_add3_portable_and_flags(carry, l, r) ==
    LET s1 == limb_add2(l, r)
        s2 == limb_inc2(carry, s1.result)
    IN  [result |-> s2.result, flag |-> s1.flag /\ s2.flag,
         b1 |-> s1.flag, b2 |-> s2.flag]

\* the portable code of limb_add(carry, l, r, result)
limb_add3_portable(carry, l, r) ==
    LET s1 == limb_add2(l, r)
        s2 == limb_inc2(carry, s1.result)
    IN  [result |-> s2.result, flag |-> s1.flag \/ s2.flag,
         b1 |-> s1.flag, b2 |-> s2.flag]

\* limb_add(carry, l, r, result)
limb_add3(path, carry, l, r) ==
    CASE path = "intrinsic" -> addcarry(LimbMod, carry, l, r)
      [] path = "half_intrinsic" ->
            LET lo == addcarry(HalfMod, carry, LowHalf(l), LowHalf(r))
                hi == addcarry(HalfMod, lo.flag, HighHalf(l), HighHalf(r))
            IN  [result |-> JoinHalves(hi.result, lo.result), flag |-> hi.flag]
      [] OTHER -> limb_add3_portable(carry, l, r)

\* a slip in the portable code of limb_sub(borrow, l, r, result): the borrow
\* is not subtracted
limb_sub3_portable_without_borrow(borrow, l, r) ==
    LET s1 == limb_sub2(l, r)
        s2 == limb_dec2(FALSE, s1.result)
    IN  [result |-> s2.result, flag |-> s1.flag \/ s2.flag,
         b1 |-> s1.flag, b2 |-> s2.flag]

\* the portable code of limb_sub(borrow, l, r, result)
limb_sub3_portable(borrow, l, r) ==
    LET s1 == limb_sub2(l, r)
        s2 == limb_dec2(borrow, s1.result)
    IN  [result |-> s2.result, flag |-> s1.flag \/ s2.flag,
         b1 |-> s1.flag, b2 |-> s2.flag]

\* limb_sub(borrow, l, r, result)
limb_sub3(path, borrow, l, r) ==
    CASE path = "intrinsic" -> subborrow(LimbMod, borrow, l, r)
      [] path = "half_intrinsic" ->
            LET lo == subborrow(HalfMod, borrow, LowHalf(l), LowHalf(r))
                hi == subborrow(HalfMod, lo.flag, HighHalf(l), HighHalf(r))
            IN  [result |-> JoinHalves(hi.result, lo.result), flag |-> hi.flag]
      [] OTHER -> limb_sub3_portable(borrow, l, r)

(***************************************************************************)
(* The caller of the limb arithmetic: every pair of limbs and carry bit.   *)
(* The one-operand functions take l as their argument.                     *)
(***************************************************************************)
InitArith ==
    \E l \in Limb, r \in Limb, carry \in BOOLEAN :
        InitArgs([kind |-> "args", l |-> l, r |-> r, carry |-> carry])

\* limb_add(carry, l, r, &res)
CallAdd ==
    /\ pc = "ready"
    /\ \E path \in ArithPaths :
          ReturnLimbs([call EXCEPT !.kind = "limb_add"] @@ [path |-> path],
                      limb_add3(path, call.carry, call.l, call.r))

\* limb_sub(borrow, l, r, &res)
CallSub ==
    /\ pc = "ready"
    /\ \E path \in ArithPaths :
          ReturnLimbs([call EXCEPT !.kind = "limb_sub"] @@ [path |-> path],
                      limb_sub3(path, call.carry, call.l, call.r))

\* limb_inc(arg, &res) and limb_inc(carry, arg, &res)
CallInc ==
    /\ pc = "ready"
    /\ call.r = 0
    /\ \/ /\ call.carry
          /\ ReturnLimbs([call EXCEPT !.kind = "limb_inc1"], limb_inc1(call.l))
       \/ ReturnLimbs([call EXCEPT !.kind = "limb_inc2"], limb_inc2(call.carry, call.l))

\* limb_dec(arg, &res) and limb_dec(borrow, arg, &res)
CallDec ==
    /\ pc = "ready"
    /\ call.r = 0
    /\ \/ /\ call.carry
          /\ ReturnLimbs([call EXCEPT !.kind = "limb_dec1"], limb_dec1(call.l))
       \/ ReturnLimbs([call EXCEPT !.kind = "limb_dec2"], limb_dec2(call.carry, call.l))

\* limb_neg applied to the result of limb_neg, with either overload (the
\* carry of the second overload is 1: a negation)
CallNegTwice ==
    /\ pc = "ready"
    /\ call.r = 0
    /\ call.carry
    /\ \/ LET n1 == limb_neg1(call.l)
              n2 == limb_neg1(n1.result)
          IN  ReturnLimbs([call EXCEPT !.kind = "neg_twice"] @@ [overload |-> "limb_neg1"],
                          [first |-> n1.result, flag1 |-> n1.flag,
                           result |-> n2.result, flag2 |-> n2.flag])
       \/ LET n1 == limb_neg2(TRUE, call.l)
              n2 == limb_neg2(TRUE, n1.result)
          IN  ReturnLimbs([call EXCEPT !.kind = "neg_twice"] @@ [overload |-> "limb_neg2"],
                          [first |-> n1.result, flag1 |-> n1.flag,
                           result |-> n2.result, flag2 |-> n2.flag])

\* limb_add(carry, l, r, &sum) and then limb_sub(borrow_in, sum, r, &res),
\* the caller choosing the borrow it passes
CallAddThenSub ==
    /\ pc = "ready"
    /\ \E path \in ArithPaths, borrow_in \in BOOLEAN :
          LET a == limb_add3(path, call.carry, call.l, call.r)
              b == limb_sub3(path, borrow_in, a.result, call.r)
          IN  ReturnLimbs([call EXCEPT !.kind = "add_sub"]
                              @@ [path |-> path, borrow_in |-> borrow_in],
                          [sum |-> a.result, carry_out |-> a.flag,
                           result |-> b.result, borrow_out |-> b.flag])

NextArith == CallAdd \/ CallSub \/ CallInc \/ CallDec \/ CallNegTwice \/ CallAddThenSub

SpecArith == InitArith /\ [][NextArith]_vars

\* C12: limb_add(carry, l, r, &res) stores (l + r + carry) mod 2^limb_bits and
\* returns true iff l + r + carry >= 2^limb_bits; limb_sub(borrow, l, r, &res)
\* stores (l - r - borrow) mod 2^limb_bits and returns true iff l < r + borrow;
\* in the portable code the flag is the OR of the two step flags, which are
\* never both true.
C12_AddSubExact ==
    /\ Done("limb_add") =>
          /\ ret.result = (call.l + call.r + BoolToLimb(call.carry)) % LimbMod
          /\ ret.flag <=> (call.l + call.r + BoolToLimb(call.carry) >= LimbMod)
    /\ Done("limb_sub") =>
          /\ ret.result = (call.l - call.r - BoolToLimb(call.carry)) % LimbMod
          /\ ret.flag <=> (call.l < call.r + BoolToLimb(call.carry))
    /\ (pc = "done" /\ call.kind \in {"limb_add", "limb_sub"} /\ call.path = "portable") =>
          /\ ret.flag <=> (ret.b1 \/ ret.b2)
          /\ ~(ret.b1 /\ ret.b2)

\* the portable addition has carried out of its second step: the largest
\* limb plus zero plus the carry wraps to zero
C12_Witness ==
    /\ Done("limb_add")
    /\ call.path = "portable"
    /\ call.l = limb_max /\ call.r = 0 /\ call.carry
    /\ ret.result = 0
    /\ ret.flag /\ ret.b2 /\ ~ret.b1

\* C13 as stated: limb_add(carry_in, l, r) followed by limb_sub of r from the
\* sum with the borrow equal to the recorded carry-out recovers l.
C13_AsClaimed ==
    (Done("add_sub") /\ call.borrow_in = ret.carry_out) => ret.result = call.l

\* C13: limb_add(carry_in, l, r) followed by limb_sub of r from the sum
\* recovers l and returns the recorded carry-out as its borrow when the
\* borrow passed in equals the carry-in; with the borrow equal to the recorded
\* carry-out it yields l + carry_in - carry_out modulo 2^limb_bits.
C13_AddSubRoundTrip ==
    Done("add_sub") =>
        /\ call.borrow_in = call.carry =>
              /\ ret.result = call.l
              /\ ret.borrow_out = ret.carry_out
        /\ call.borrow_in = ret.carry_out =>
              ret.result = (call.l + BoolToLimb(call.carry)
                                - BoolToLimb(ret.carry_out)) % LimbMod

\* the portable code has added with a carry in and a carry out and
\* subtracted again with that borrow: l is back
C13_Witness ==
    /\ Done("add_sub")
    /\ call.path = "portable"
    /\ call.carry /\ ret.carry_out /\ call.borrow_in
    /\ call.l # 0
    /\ ret.result = call.l
    /\ ret.borrow_out

\* C14: limb_neg applied to the result of limb_neg(x) stores x again, and
\* each of the two returned flags is true exactly when x = 0.
C14_NegateInvolution ==
    Done("neg_twice") =>
        /\ ret.result = call.l
        /\ ret.first = (0 - call.l) % LimbMod
        /\ ret.flag1 <=> (call.l = 0)
        /\ ret.flag2 <=> (call.l = 0)

\* zero has been negated twice through the carry overload: both flags are set
C14_Witness ==
    /\ Done("neg_twice")
    /\ call.overload = "limb_neg2"
    /\ call.l = 0
    /\ ret.result = 0
    /\ ret.flag1 /\ ret.flag2

ChainLimbs == {0, 1, HalfMod, Pow2(limb_bits - 1), limb_max - 1, limb_max}

InitNegChain ==
    \E n \in 0 .. MaxChain :
        \E x \in [1 .. n -> ChainLimbs] :
            /\ mem0 = x
            /\ mem = [k \in 1 .. n |-> 0]
            /\ call = [kind |-> "neg_chain", i |-> 0, carry |-> TRUE]
            /\ ret = [kind |-> "chain", carries |-> <<>>, flags |-> <<>>]
            /\ pc = "ready"
            /\ views = NoViews
            /\ log = EmptyLog

\* one iteration: carry = limb_neg(carry, x[i], &y[i])
NegChainStep ==
    /\ pc = "ready"
    /\ call.i < Len(mem0)
    /\ LET n == limb_neg2(call.carry, mem0[call.i + 1])
       IN  /\ mem' = [mem EXCEPT ![call.i + 1] = n.result]
           /\ call' = [call EXCEPT !.i = @ + 1, !.carry = n.flag]
           /\ ret' = [ret EXCEPT !.carries = Append(@, call.carry),
                                 !.flags = Append(@, n.flag)]
    /\ UNCHANGED <<pc, views, mem0, log>>

\* the loop ends
NegChainEnd ==
    /\ pc = "ready"
    /\ call.i = Len(mem0)
    /\ pc' = "done"
    /\ UNCHANGED <<views, mem0, mem, call, log, ret>>

NextNegChain == NegChainStep \/ NegChainEnd

SpecNegChain == InitNegChain /\ [][NextNegChain]_vars

\* the value of the n low limbs of a sequence of limbs
RECURSIVE ChainValue(_, _)
ChainValue(x, n) ==
    IF n = 0 THEN 0 ELSE x[n] * Pow2(limb_bits * (n - 1)) + ChainValue(x, n - 1)

\* C15: chaining limb_neg(carry, x[i], &y[i]) from carry 1 over the limbs of
\* x yields y = (-x) mod 2^(limb_bits * n); after every step the carry is
\* set iff all limbs so far are zero (so the final flag is true iff x = 0),
\* and a step entered with carry 0 stores the complement and returns false.
C15_ChainedNegation ==
    /\ ChainValue(mem, call.i) = (0 - ChainValue(mem0, call.i)) % Pow2(limb_bits * call.i)
    /\ call.carry <=> (\A k \in 1 .. call.i : mem0[k] = 0)
    /\ \A k \in 1 .. call.i :
          ~ret.carries[k] => (mem[k] = BitNot(mem0[k]) /\ ~ret.flags[k])
    /\ pc = "done" => call.i = Len(mem0)

\* an integer of three limbs whose lowest limb is zero has been negated: the
\* carry passed through the first limb, stopped at the second, and the third
\* was complemented
C15_Witness ==
    /\ pc = "done"
    /\ call.kind = "neg_chain"
    /\ Len(mem0) = 3
    /\ mem0[1] = 0 /\ mem0[2] = limb_max /\ mem0[3] = limb_max
    /\ ret.carries = <<TRUE, TRUE, FALSE>>
    /\ mem = <<0, 1, 0>>
    /\ ~call.carry

(***************************************************************************)
(* The caller of limb_span_sign_extension<Signed>(view): views of 0 to     *)
(* MaxCmpLen limbs, every value of the last limb.                          *)
(***************************************************************************)
InitExt ==
    \E n \in 0 .. MaxCmpLen, top \in Limb, low \in CmpLimbs :
        /\ views = [d |-> Span(1, 0), l |-> Span(1, 0), r |-> Span(1, n), alias |-> "none"]
        /\ mem0 = [k \in 1 .. MaxCmpLen |->
                      IF k = n THEN top ELSE IF k < n THEN low ELSE limb_max - low]
        /\ mem = mem0
        /\ pc = "ready"
        /\ call = NoCall
        /\ log = EmptyLog
        /\ ret = NoRet

\* limb_span_sign_extension<Signed>(r)
CallSignExtension ==
    /\ pc = "ready"
    /\ \E Signed \in BOOLEAN :
          /\ ret' = [kind |-> "limb", value |-> limb_span_sign_extension(Signed, mem, views.r)]
          /\ call' = [kind |-> "sign_extension", signed |-> Signed]
          /\ log' = [rd |-> SignExtensionReads(Signed, views.r), wr |-> {}]
          /\ pc' = "done"
          /\ UNCHANGED <<views, mem0, mem>>

NextExt == CallSignExtension

SpecExt == InitExt /\ [][NextExt]_vars

\* C18: limb_span_sign_extension<Signed>(view) returns 0 if the view is empty
\* or Signed is false; otherwise the all-ones limb if the top bit of the last
\* limb is set and 0 if it is clear; it returns no other value.
C18_SignExtension ==
    Done("sign_extension") =>
        /\ (views.r.len = 0 \/ ~call.signed) => ret.value = 0
        /\ (views.r.len # 0 /\ call.signed) =>
              ret.value = IF mem0[views.r.len] >= Pow2(limb_bits - 1) THEN limb_max ELSE 0
        /\ ret.value \in {0, limb_max}

\* a signed view of several limbs whose last limb has only its top bit set,
\* above limbs with the top bit clear, extends with all ones
C18_Witness ==
    /\ Done("sign_extension")
    /\ call.signed
    /\ views.r.len > 1
    /\ mem0[views.r.len] = Pow2(limb_bits - 1)
    /\ mem0[1] = 1
    /\ ret.value = limb_max

(***************************************************************************)
(* A caller of the operations that read their destination: d and r are     *)
(* disjoint and both hold limbs that differ from index to index.           *)
(***************************************************************************)
InitInplace ==
    \E dlen \in SpanLens, rlen \in SpanLens, dtop \in BOOLEAN, rtop \in BOOLEAN :
        /\ views = Views("none", dlen, 0, rlen)
        /\ mem0 = [a \in Addr |->
                      IF InSpan(a, views.d) THEN LeftLimb(a - views.d.base, dlen, dtop)
                      ELSE IF InSpan(a, views.r) THEN RightLimb(a - views.r.base, rlen, rtop)
                      ELSE FillLimb(TRUE)]
        /\ mem = mem0
        /\ pc = "ready"
        /\ call = NoCall
        /\ log = EmptyLog
        /\ ret = NoRet

\* limb_span_bitnot_inplace<Opt>(d) called twice on the same view
CallBitnotInplaceTwice ==
    /\ pc = "ready"
    /\ views.r.len = 0
    /\ \E Opt \in UnaryOptions :
          Finish(limb_span_bitnot_inplace(Opt,
                     limb_span_bitnot_inplace(Opt, Start, views.d), views.d),
                 [kind |-> "bitnot_inplace_twice", f |-> "not", opt |-> Opt])

NextInplace ==
    CallBinaryInplace \/ CallBitnot \/ CallBitnotInplace \/ CallBitnotInplaceTwice

SpecInplace == InitInplace /\ [][NextInplace]_vars

\* C19: after limb_span_bitnot(d, r) with d disjoint from r, every d[i],
\* i < |d|, is ~r[i] for i < |r| and the complement of the sign-extension
\* word of r above; limb_span_bitnot_inplace(d) replaces every d[i] by ~d[i]
\* and applied twice restores d.
C19_Bitnot ==
    /\ Done("bitnot") =>
          \A i \in Indices(views.d) :
              mem[views.d.base + i] = BitNot(ExtLimb(RSignedOf(call), mem0, views.r, i))
    /\ Done("bitnot_inplace") =>
          \A i \in Indices(views.d) : mem[views.d.base + i] = BitNot(mem0[views.d.base + i])
    /\ Done("bitnot_inplace_twice") =>
          \A i \in Indices(views.d) : mem[views.d.base + i] = mem0[views.d.base + i]

\* a destination longer than a negative signed source has been written: the
\* limbs above the source are the complement of all ones
C19_Witness ==
    /\ Done("bitnot")
    /\ RSignedOf(call)
    /\ views.r.len > 0
    /\ views.d.len > views.r.len
    /\ mem0[End(views.r) - 1] >= Pow2(limb_bits - 1)
    /\ \A i \in views.r.len .. (views.d.len - 1) : mem[views.d.base + i] = 0
    /\ mem[views.d.base] = BitNot(mem0[views.r.base])

\* C20: after limb_span_bit<op>_inplace(d, r) with r disjoint from d, every
\* d[i], i < |d|, is f(d_old[i], R(i)), R(i) being r[i] for i < |r| and the
\* sign-extension word of r above.
C20_InplaceElementwise ==
    Done("binary_inplace") =>
        \A i \in Indices(views.d) :
            mem[views.d.base + i] =
                Apply2(call.f, mem0[views.d.base + i],
                               ExtLimb(RSignedOf(call), mem0, views.r, i))

\* AND in place against a shorter negative signed operand, not branchless:
\* the extension is all ones, the collapsed form is the identity and the
\* limbs of d above r are neither written nor changed
C20_Witness ==
    /\ Done("binary_inplace")
    /\ call.f = "and"
    /\ call.opt = {right_signed_option}
    /\ views.r.len > 0
    /\ views.d.len > views.r.len
    /\ mem0[End(views.r) - 1] >= Pow2(limb_bits - 1)
    /\ log.wr = Range(views.d.base, views.r.len)
    /\ \A i \in views.r.len .. (views.d.len - 1) :
          mem[views.d.base + i] = mem0[views.d.base + i]

(***************************************************************************)
(* A caller that evaluates a negated operator in three ways over views of  *)
(* one length: limb_span_bit<nop>(d, l, r); limb_span_bit<op>(d, l, r)     *)
(* followed by limb_span_bitnot(t, d) into a temporary t; and, after       *)
(* complementing l and r in place, the dual operator.                      *)
(***************************************************************************)
\* the limbs a view holds
Limbs(m, v) == [i \in 1 .. v.len |-> m[v.base + i - 1]]

\* and, or, xor with their negations and with the operator that De Morgan's
\* law pairs them with
PlainOps == {"and", "or", "xor"}
NegatedOp(op) == CASE op = "and" -> "nand" [] op = "or" -> "nor" [] op = "xor" -> "xnor"
DualOp(op) == CASE op = "and" -> "or" [] op = "or" -> "and" [] op = "xor" -> "xnor"

InitLaw ==
    \E n \in SpanLens, ltop \in BOOLEAN, rtop \in BOOLEAN, dfill \in BOOLEAN :
        /\ views = Views("none", n, n, n)
        /\ mem0 = InitMem(views, ltop, rtop, dfill)
        /\ mem = mem0
        /\ pc = "ready"
        /\ call = NoCall
        /\ log = EmptyLog
        /\ ret = NoRet

CallNegatedThreeWays ==
    /\ pc = "ready"
    /\ \E op \in PlainOps, Opt \in BitwiseOptions :
          LET direct == limb_span_bitop(NegatedOp(op), Opt, Start, views.d, views.l, views.r)
              plain == limb_span_bitop(op, Opt, Start, views.d, views.l, views.r)
              \* the temporary is the storage of l, which is no longer needed
              composed == limb_span_bitnot(Opt, plain, views.l, views.d)
              notl == limb_span_bitnot_inplace(Opt, Start, views.l)
              notr == limb_span_bitnot_inplace(Opt, notl, views.r)
              dual == limb_span_bitop(DualOp(op), Opt, notr, views.d, views.l, views.r)
          IN  /\ ret' = [kind |-> "limbs",
                         direct |-> Limbs(direct.mem, views.d),
                         composed |-> Limbs(composed.mem, views.l),
                         plain |-> Limbs(plain.mem, views.d),
                         dual |-> Limbs(dual.mem, views.d)]
              /\ mem' = composed.mem
              /\ log' = [rd |-> composed.rd, wr |-> composed.wr]
              /\ call' = [kind |-> "negated_three_ways", f |-> op, opt |-> Opt]
              /\ pc' = "done"
              /\ UNCHANGED <<views, mem0>>

NextLaw == CallNegatedThreeWays

SpecLaw == InitLaw /\ [][NextLaw]_vars

\* C21: over views of equal length and a destination of that length,
\* limb_span_bitnand, limb_span_bitnor and limb_span_bitxnor write what
\* limb_span_bitnot writes from the result of limb_span_bitand, limb_span_bitor
\* and limb_span_bitxor, and NOT(AND(a, b)) is OR(NOT(a), NOT(b)) limb by limb.
C21_DeMorgan ==
    Done("negated_three_ways") =>
        /\ ret.direct = ret.composed
        /\ call.f \in {"and", "or"} => ret.composed = ret.dual
        /\ \A i \in 1 .. views.d.len : ret.composed[i] = BitNot(ret.plain[i])

\* the three evaluations of NAND over views long enough for every unrolled
\* loop agree on limbs that are not all equal
C21_Witness ==
    /\ Done("negated_three_ways")
    /\ call.f = "and"
    /\ views.d.len = BigLen
    /\ ret.direct = ret.dual
    /\ ret.direct = ret.composed
    /\ ret.direct[1] # ret.direct[2]

(***************************************************************************)
(* Claims about the bitwise entry points under SpecBit, continued.         *)
(***************************************************************************)
\* the same call on the same operands, the destination holding other limbs
\* before the call
RefilledRun ==
    LET m == [a \in Addr |-> IF InSpan(a, views.d) THEN BitNot(mem0[a]) ELSE mem0[a]]
        st == [mem |-> m, rd |-> {}, wr |-> {}]
    IN  IF call.kind = "binary"
        THEN limb_span_bitop(call.f, call.opt, st, views.d, views.l, views.r)
        ELSE limb_span_bitnot(call.opt, st, views.d, views.r)

\* C22: two calls of a non-in-place operation with the same operands, lengths
\* and flags but different prior contents of d leave the same limbs in d.
C22_DestinationDetermined ==
    (pc = "done" /\ call.kind \in {"binary", "bitnot"} /\ views.alias = "none") =>
        \A i \in Indices(views.d) :
            mem[views.d.base + i] = RefilledRun.mem[views.d.base + i]

(***************************************************************************)
(* limb_type.hpp: the precondition checks at the head of limb_div.  The    *)
(* build is either with assertions (NDEBUG not defined) or without, and    *)
(* the call is either constant-evaluated or evaluated at run time.         *)
(***************************************************************************)
\* a slip in the precondition check: l_high = r is let through
limb_div_check_strict(constant_evaluated, ndebug, l_high, r) ==
    IF ~ndebug /\ ~(l_high <= r) THEN "assert_failed"
    ELSE IF constant_evaluated /\ l_high > r THEN "constexpr_assert_fail"
    ELSE "proceed"

\* assert(l_high < r);
\* if (std::is_constant_evaluated() && l_high >= r) constexpr_assert_fail(...)
limb_div_check(constant_evaluated, ndebug, l_high, r) ==
    IF ~ndebug /\ ~(l_high < r) THEN "assert_failed"
    ELSE IF constant_evaluated /\ l_high >= r THEN "constexpr_assert_fail"
    ELSE "proceed"

\* what a call that was not stopped may store when l_high >= r: the
\* behaviour is undefined, the call traps or returns some limbs
UndefinedLimbs == {0, 1, Pow2(limb_bits - 1), limb_max}

InitDivCheck ==
    \E l_high \in Limb, l_low \in {0, limb_max}, r \in Limb,
       constant_evaluated \in BOOLEAN, ndebug \in BOOLEAN :
        InitArgs([kind |-> "args", l_high |-> l_high, l_low |-> l_low, r |-> r,
                  constant_evaluated |-> constant_evaluated, ndebug |-> ndebug])

\* limb_div(l_high, l_low, r, &rem) from its first statement; the div
\* instruction is not used in a constant evaluation
CallDivChecked ==
    /\ pc = "ready"
    /\ \E path \in DivPaths :
          /\ call.constant_evaluated => path # "div"
          /\ LET c == [call EXCEPT !.kind = "limb_div_checked"] @@ [path |-> path]
                 chk == limb_div_check(call.constant_evaluated, call.ndebug,
                                       call.l_high, call.r)
             IN  \/ /\ chk # "proceed"
                    /\ ReturnLimbs(c, [kind |-> chk])
                 \/ /\ chk = "proceed"
                    /\ call.l_high < call.r
                    /\ ReturnLimbs(c, [kind |-> "returned"]
                                          @@ limb_div(path, call.l_high, call.l_low, call.r))
                 \/ /\ chk = "proceed"
                    /\ call.l_high >= call.r
                    /\ \/ ReturnLimbs(c, [kind |-> "trap"])
                       \/ \E q \in UndefinedLimbs, rem \in UndefinedLimbs :
                             ReturnLimbs(c, [kind |-> "returned",
                                             quotient |-> q, remainder |-> rem])

NextDivCheck == CallDivChecked

SpecDivCheck == InitDivCheck /\ [][NextDivCheck]_vars

\* C23: a constant-evaluated limb_div with l_high >= r ends in a failure of
\* the evaluation and returns no quotient: constexpr_assert_fail is reached,
\* or, in a build with assertions, the assert before it fails; with
\* l_high < r neither failure is reached.
C23_ConstantEvaluatedFailure ==
    (Done("limb_div_checked") /\ call.constant_evaluated) =>
        /\ call.l_high >= call.r =>
              /\ ret.kind \in {"assert_failed", "constexpr_assert_fail"}
              /\ call.ndebug => ret.kind = "constexpr_assert_fail"
        /\ call.l_high < call.r => ret.kind = "returned"

\* a constant evaluation with l_high = r in a build without assertions has
\* reached constexpr_assert_fail
C23_Witness ==
    /\ Done("limb_div_checked")
    /\ call.constant_evaluated /\ call.ndebug
    /\ call.l_high = call.r
    /\ call.r # 0
    /\ ret.kind = "constexpr_assert_fail"

(***************************************************************************)
(* A caller of the operator descriptors themselves: Func::flip applied to  *)
(* two limbs, Func::bind_one and Func::bind_zero applied to one.           *)
(***************************************************************************)
InitDesc ==
    \E l \in Limb, r \in Limb :
        InitArgs([kind |-> "args", l |-> l, r |-> r])

ReturnLimb(c, v) == ReturnLimbs(c, [kind |-> "limb", value |-> v])

\* typename Func::flip{ }(l, r)
CallFlip ==
    /\ pc = "ready"
    /\ \E f \in BinaryFuncs :
          ReturnLimb([call EXCEPT !.kind = "flip"] @@ [f |-> f],
                     Apply2(flip(f), call.l, call.r))

\* typename Func::bind_one{ }(l)
CallBindOne ==
    /\ pc = "ready"
    /\ call.r = limb_max
    /\ \E f \in BinaryFuncs :
          ReturnLimb([call EXCEPT !.kind = "bind_one"] @@ [f |-> f],
                     Apply1(bind_one(f), call.l))

\* typename Func::bind_zero{ }(l)
CallBindZero ==
    /\ pc = "ready"
    /\ call.r = 0
    /\ \E f \in BinaryFuncs :
          ReturnLimb([call EXCEPT !.kind = "bind_zero"] @@ [f |-> f],
                     Apply1(bind_zero(f), call.l))

NextDesc == CallFlip \/ CallBindOne \/ CallBindZero

SpecDesc == InitDesc /\ [][NextDesc]_vars

\* C24: for every binary descriptor and all limbs a and b,
\* Func::flip(a, b) = Func(b, a).
C24_FlipSwapsArguments ==
    Done("flip") => ret.value = Apply2(call.f, call.r, call.l)

\* C25: for every binary descriptor and every limb x,
\* Func::bind_one(x) = Func(x, all-ones) and Func::bind_zero(x) = Func(x, 0).
C25_BindConstants ==
    /\ Done("bind_one") => ret.value = Apply2(call.f, call.l, limb_max)
    /\ Done("bind_zero") => ret.value = Apply2(call.f, call.l, 0)

\* the collapsed form of AND against zero has been applied to a limb that is
\* not zero
C25_Witness ==
    /\ Done("bind_zero")
    /\ call.f = "and"
    /\ call.l = limb_max
    /\ ret.value = 0

(***************************************************************************)
(* The promoted comparison against the operands extended to a common       *)
(* length, and against the infinite comparison.                            *)
(***************************************************************************)
Max2(a, b) == IF a >= b THEN a ELSE b

\* the unsigned value of the n limbs that view v extended with its own
\* sign-extension word to n >= v.len limbs consists of
ExtendedUnsigned(Signed, m, v, n) ==
    UnsignedValue(m, v, v.len)
        + (limb_span_sign_extension(Signed, m, v)
              * (Pow2(limb_bits * n) - Pow2(limb_bits * v.len))) \div limb_max

\* the same n limbs read as two's complement if AsSigned, else as unsigned
ExtendedValue(AsSigned, Signed, m, v, n) ==
    LET u == ExtendedUnsigned(Signed, m, v, n)
    IN  IF AsSigned /\ n > 0 /\ u >= Pow2(limb_bits * n - 1)
        THEN u - Pow2(limb_bits * n) ELSE u

\* the extended operands are compared as signed: the longer operand is
\* flagged signed, or both are at equal lengths
PromotedSigned ==
    IF views.l.len > views.r.len THEN LSignedOf(call)
    ELSE IF views.r.len > views.l.len THEN RSignedOf(call)
    ELSE LSignedOf(call) /\ RSignedOf(call)

\* C26: limb_span_compare_promoted(l, r) is the comparison of the two
\* operands, each extended to the longer length with its own sign-extension
\* word, read as two's complement when the longer operand is flagged signed
\* (at equal lengths: when both are) and as unsigned otherwise; two empty
\* views compare equal.
C26_PromotedIsExtendedOrder ==
    Done("compare_promoted") =>
        LET n == Max2(views.l.len, views.r.len)
        IN  /\ ret.value =
                 Compare3(ExtendedValue(PromotedSigned, LSignedOf(call), mem, views.l, n),
                          ExtendedValue(PromotedSigned, RSignedOf(call), mem, views.r, n))
            /\ n = 0 => ret.value = "equal"

\* a longer operand flagged signed and negative has been compared with a
\* shorter unsigned operand whose top bit is set
C26_Witness ==
    /\ Done("compare_promoted")
    /\ views.r.len > 0
    /\ views.l.len > views.r.len
    /\ call.opt = {left_signed_option}
    /\ Negative(TRUE, mem, views.l)
    /\ Negative(TRUE, mem, views.r)
    /\ ret.value = "less"

\* a signed operand is negative and the other operand is unsigned and at
\* least as long
NegativeAgainstLongerUnsigned ==
    \/ /\ Negative(LSignedOf(call), mem, views.l)
       /\ ~RSignedOf(call)
       /\ views.r.len >= views.l.len
    \/ /\ Negative(RSignedOf(call), mem, views.r)
       /\ ~LSignedOf(call)
       /\ views.l.len >= views.r.len

\* C27: limb_span_compare_infinite returns what limb_span_compare_promoted
\* returns unless a negative signed operand is compared with an unsigned
\* operand that is at least as long; in particular whenever the two flags
\* agree, and whenever they differ and the signed operand is not negative.
C27_InfiniteVersusPromoted ==
    Done("compare_infinite") =>
        LET promoted == limb_span_compare_promoted(call.opt, mem, views.l, views.r)
        IN  /\ ~NegativeAgainstLongerUnsigned => ret.value = promoted
            /\ LSignedOf(call) = RSignedOf(call) => ret.value = promoted
            /\ (/\ LSignedOf(call) # RSignedOf(call)
                /\ ~Negative(LSignedOf(call), mem, views.l)
                /\ ~Negative(RSignedOf(call), mem, views.r)) => ret.value = promoted

\* a negative signed operand has been compared with a shorter unsigned one
\* and the two comparisons agree
C27_Witness ==
    /\ Done("compare_infinite")
    /\ views.r.len > 0
    /\ views.l.len > views.r.len
    /\ call.opt = {left_signed_option}
    /\ Negative(TRUE, mem, views.l)
    /\ ret.value = "less"
    /\ limb_span_compare_promoted(call.opt, mem, views.l, views.r) = "less"

(***************************************************************************)
(* The fast version of the portable limb_div, step by step: the arrays ld  *)
(* and rd as each limb_div_2_by_1 call finds them, and what it stores.     *)
(***************************************************************************)
limb_div_fast_steps(l_high, l_low, r) ==
    LET ld0 == ToHalf(l_low)
        ld1 == ToHalf(Shr(l_low, limb_half_bits))
        ld2 == ToHalf(l_high)
        rd0 == ToHalf(r)
        s1 == limb_div_2_by_1(ld1, ld2, rd0)
        s2 == limb_div_2_by_1(ld0, s1.l0, rd0)
    IN  [rd0 |-> rd0,
         first |-> [low |-> ld1, high |-> ld2, q |-> s1.q, rem |-> s1.l0],
         second |-> [low |-> ld0, high |-> s1.l0, q |-> s2.q, rem |-> s2.l0],
         quotient |-> JoinHalves(s1.q, s2.q), remainder |-> s2.l0]

\* the portable code of limb_div has taken its fast version
FastDivDone ==
    /\ Done("limb_div")
    /\ call.path = "portable"
    /\ Shr(call.r, limb_half_bits) = 0

\* the dividend of a limb_div_2_by_1 step has its high half below the
\* divisor and the quotient stored is the whole quotient
StepFits(step, rd0) ==
    /\ step.high < rd0
    /\ JoinHalves(step.high, step.low) \div rd0 < HalfMod
    /\ step.q = JoinHalves(step.high, step.low) \div rd0
    /\ step.rem = JoinHalves(step.high, step.low) % rd0

\* C28: in the portable code of limb_div, when the divisor's upper half is
\* zero and l_high < r, each of the two limb_div_2_by_1 steps has a dividend
\* whose high half is less than the divisor, so its quotient fits a half
\* limb, and the result has q * r + rem = l_high * 2^limb_bits + l_low with
\* rem < r.
C28_FastDivExact ==
    FastDivDone =>
        LET t == limb_div_fast_steps(call.l_high, call.l_low, call.r)
        IN  /\ ret.quotient = t.quotient
            /\ ret.remainder = t.remainder
            /\ StepFits(t.first, t.rd0)
            /\ StepFits(t.second, t.rd0)
            /\ ret.quotient * call.r + ret.remainder
                   = call.l_high * LimbMod + call.l_low
            /\ ret.remainder < call.r

\* the fast version has divided a dividend with a high limb that is not
\* zero, and both steps left a remainder
C28_Witness ==
    /\ FastDivDone
    /\ call.l_high > 0
    /\ limb_div_fast_steps(call.l_high, call.l_low, call.r).first.rem > 0
    /\ ret.remainder > 0
    /\ ret.quotient >= HalfMod

(***************************************************************************)
(* A caller of limb_div_3_by_2 alone: every dividend l[2]:l[1]:l[0] and    *)
(* every divisor r[1]:r[0] of half limbs with the top bit of r[1] set and  *)
(* the dividend less than the divisor times 2^limb_half_bits.              *)
(***************************************************************************)
Join3(l2, l1, l0) == (l2 * HalfMod + l1) * HalfMod + l0
Join2(r1, r0) == r1 * HalfMod + r0

InitDiv3By2 ==
    \E l0 \in HalfLimb, l1 \in HalfLimb, l2 \in HalfLimb,
       r0 \in HalfLimb, r1 \in HalfLimb :
        /\ r1 >= Pow2(limb_half_bits - 1)
        /\ Join3(l2, l1, l0) < Join2(r1, r0) * HalfMod
        /\ InitArgs([kind |-> "args", l0 |-> l0, l1 |-> l1, l2 |-> l2,
                     r0 |-> r0, r1 |-> r1])

CallDiv3By2 ==
    /\ pc = "ready"
    /\ ReturnLimbs([call EXCEPT !.kind = "limb_div_3_by_2"],
                   limb_div_3_by_2(call.l0, call.l1, call.l2, call.r0, call.r1))

NextDiv3By2 == CallDiv3By2

SpecDiv3By2 == InitDiv3By2 /\ [][NextDiv3By2]_vars

\* C29: limb_div_3_by_2(l, r, q), for a divisor R = r[1]:r[0] with the top
\* bit of r[1] set and a dividend L = l[2]:l[1]:l[0] < R * 2^limb_half_bits,
\* stores q[0] = floor(L / R) and leaves l[1]:l[0] = L mod R, on the
\* shortcut taken when l[2] >= r[1] as well as on the validated path.
C29_Div3By2Exact ==
    Done("limb_div_3_by_2") =>
        LET L == Join3(call.l2, call.l1, call.l0)
            R == Join2(call.r1, call.r0)
        IN  /\ ret.q = L \div R
            /\ Join2(ret.l1, ret.l0) = L % R

\* the same law on the validated path, where l[2] < r[1]
C29_ValidatedPathExact ==
    (Done("limb_div_3_by_2") /\ call.l2 < call.r1) =>
        LET L == Join3(call.l2, call.l1, call.l0)
            R == Join2(call.r1, call.r0)
        IN  /\ ret.q = L \div R
            /\ Join2(ret.l1, ret.l0) = L % R

\* the same law on the shortcut, where l[2] >= r[1]
C29_ShortcutExact ==
    (Done("limb_div_3_by_2") /\ call.l2 >= call.r1) =>
        LET L == Join3(call.l2, call.l1, call.l0)
            R == Join2(call.r1, call.r0)
        IN  /\ ret.q = L \div R
            /\ Join2(ret.l1, ret.l0) = L % R

(***************************************************************************)
(* A caller that passes the options marking an operand as mutable: the     *)
(* bitwise entry points with a destination disjoint from the sources, and  *)
(* the two comparisons, on the same operands.                              *)
(***************************************************************************)
left_mutable_option == "left_mutable"
right_mutable_option == "right_mutable"
arg_mutable_option == right_mutable_option
MutableOptions == SUBSET {left_mutable_option, right_mutable_option}
ArgMutableOptions == SUBSET {arg_mutable_option}

InitFrame ==
    \E dlen \in SpanLens, llen \in SpanLens, rlen \in SpanLens,
       ltop \in BOOLEAN, rtop \in BOOLEAN :
        /\ views = Views("none", dlen, llen, rlen)
        /\ mem0 = InitMem(views, ltop, rtop, TRUE)
        /\ mem = mem0
        /\ pc = "ready"
        /\ call = NoCall
        /\ log = EmptyLog
        /\ ret = NoRet

\* limb_span_bit<op><Opt>(d, l, r)
CallBinaryMutable ==
    /\ pc = "ready"
    /\ \E op \in BinaryFuncs, Opt \in BitwiseOptions, Mut \in MutableOptions :
          Finish(limb_span_bitop(op, Opt \cup Mut, Start, views.d, views.l, views.r),
                 [kind |-> "binary", f |-> op, opt |-> Opt \cup Mut])

\* limb_span_bit<op>_inplace<Opt>(d, r)
CallBinaryInplaceMutable ==
    /\ pc = "ready"
    /\ views.l.len = 0
    /\ \E op \in BinaryFuncs, Opt \in InplaceOptions, Mut \in ArgMutableOptions :
          Finish(limb_span_bitop_inplace(op, Opt \cup Mut, Start, views.d, views.r),
                 [kind |-> "binary_inplace", f |-> op, opt |-> Opt \cup Mut])

\* limb_span_bitnot<Opt>(d, r)
CallBitnotMutable ==
    /\ pc = "ready"
    /\ views.l.len = 0
    /\ \E Opt \in UnaryOptions, Mut \in ArgMutableOptions :
          Finish(limb_span_bitnot(Opt \cup Mut, Start, views.d, views.r),
                 [kind |-> "bitnot", f |-> "not", opt |-> Opt \cup Mut])

\* limb_span_compare_promoted<Opt>(l, r): the operands are read through
\* spans of const limbs
CallComparePromotedMutable ==
    /\ pc = "ready"
    /\ views.d.len = 0
    /\ \E Opt \in CompareOptions, Mut \in MutableOptions :
          Return([kind |-> "compare_promoted", opt |-> Opt \cup Mut],
                 limb_span_compare_promoted(Opt \cup Mut, mem, views.l, views.r))

\* limb_span_compare_infinite<Opt>(l, r)
CallCompareInfiniteMutable ==
    /\ pc = "ready"
    /\ views.d.len = 0
    /\ \E Opt \in CompareOptions, Mut \in MutableOptions :
          Return([kind |-> "compare_infinite", opt |-> Opt \cup Mut],
                 limb_span_compare_infinite(Opt \cup Mut, mem, views.l, views.r))

NextFrame ==
    \/ CallBinaryMutable
    \/ CallBinaryInplaceMutable
    \/ CallBitnotMutable
    \/ CallComparePromotedMutable
    \/ CallCompareInfiniteMutable

SpecFrame == InitFrame /\ [][NextFrame]_vars

SourcesUnchanged ==
    \A a \in Addr : (InSpan(a, views.l) \/ InSpan(a, views.r)) => mem[a] = mem0[a]

\* C30: after limb_span_bit<op>(d, l, r), limb_span_bit<op>_inplace(d, r) or
\* limb_span_bitnot(d, r) with sources disjoint from d, and after either
\* comparison, every limb of l and of r is what it was before the call,
\* whether or not the options marking an operand as mutable are set.
C30_SourcesUnchanged ==
    pc = "done" => SourcesUnchanged

\* the complement of a source marked mutable has been written to d
C30_Witness ==
    /\ Done("bitnot")
    /\ arg_mutable_option \in call.opt
    /\ views.r.len > 0
    /\ views.d.len >= views.r.len
    /\ \A i \in Indices(views.r) :
          mem[views.d.base + i] = BitNot(mem0[views.r.base + i])

====
